---- MODULE Spec2Model ----
(***************************************************************************)
(* Model of the admission-controlled conversion queue (ConversionQueue,    *)
(* server/services/queue.ts) and of the job status endpoint built on it,   *)
(* of the request rate limiter (trpc-context.ts), of the tRPC procedures   *)
(* and HTTP routes of the service, and of the folder converter             *)
(* (services/converter.ts).                                                *)
(*                                                                         *)
(* The queue lives in a single-threaded event loop.  One action of the     *)
(* model is one run-to-completion piece of code: a public method call, the *)
(* continuation of _run after an awaited conversion, the .finally callback *)
(* of _scheduleNext, or a TTL timer callback.                              *)
(***************************************************************************)
EXTENDS Naturals, Integers, Sequences, FiniteSets, TLC

\* ------------------------------------------------------------------------
\* Bounds of the model
\* ------------------------------------------------------------------------
\* number of jobs ever submitted (ids 1..MaxJobs stand for the uuids)
MaxJobs == 3
\* largest concurrency budget explored (maxConcurrent ranges over 1..MaxK)
MaxK == 2
\* longest submitted file list
MaxFiles == 1
\* files uploaded in all, over every submission, when the staging of
\* arbitrary file names is explored
MaxUploads == 3
\* setImmediate callbacks of the download route queued at a time
MaxDownloads == 2
\* submissions when the staging of arbitrary file names is explored
MaxBatches == 2
\* advances of the clock
MaxTicks == 3
\* calls of checkRateLimit made by one caller after its window is used up
MaxExtra == 2
\* largest batch size asked of the folder converter, counted in halves
MaxHalves == 6
\* invocations of runConversion
MaxRuns == 1
\* POST /api/convert requests handled at a time
MaxPosts == 2
\* callbacks of the client's poll interval that run
MaxPolls == 3
\* steps of a whole window the clock makes
MaxWindows == 3

\* ------------------------------------------------------------------------
\* Program constants
\* ------------------------------------------------------------------------
DEFAULT_MAX_CONCURRENT == 1
RATE_LIMIT_WINDOW_MS == 60000
RATE_LIMIT_MAX_REQUESTS == 20
\* parseInt(process.env.BATCH_SIZE ?? "3", 10) with the variable unset
BATCH_SIZE == 3

VARIABLES
    maxConcurrent,  \* ConversionQueue.maxConcurrent
    running,        \* ConversionQueue.running
    jobs,           \* keys of ConversionQueue.jobs in Map insertion order
    job,            \* the Job objects ever created, by id (a removed job's
                    \* object stays reachable from its _run closure)
    exec,           \* position of each job's _run / .finally continuation
    dirs,           \* ids whose temp directory exists on disk
    workspace,      \* file names staged in each job's temp directory
    nextId,         \* next fresh id (uuidv4 never repeats)
    thrown,         \* exception that escaped the last operation, or "none"
    statusLog,      \* history: every value assigned to job.status, in order
    reclaims,       \* history: times cleanup reclaimed each job
    admitted,       \* history: which pass admitted each job, and how many
                    \* pending jobs it left waiting
    outside,        \* files written in os.tmpdir() outside every temp directory
    immediates,     \* job ids of the queued setImmediate cleanup callbacks
    submitted,      \* history: the file list handed to enqueue, by id
    attempts,       \* history: the files passed to convertFileDirect by each
                    \* job and what each call returned
    served,         \* history: ids whose download was answered with a file
    rateLimitStore, \* the Map of trpc-context.ts, by caller IP
    now,            \* Date.now(), counted from the start of the process
    windowLog,      \* history: the calls of checkRateLimit of each caller
                    \* since the start of its window
    allowLog,       \* history: the times of the calls of the observed caller
                    \* that returned true in the last RATE_LIMIT_WINDOW_MS
    unpurged,       \* history: the store as the calls of checkRateLimit
                    \* alone leave it, had no purge ever run
    posts,          \* the POST /api/convert requests being handled
    runs,           \* the invocations of runConversion, in order
    reply,          \* the answer to the last request to an endpoint
    client,         \* the page: its status state, pollRef and the job it
                    \* follows; history: the downloads it requested and
                    \* whether one was saved
    polls           \* the callbacks of the poll interval, in firing order

\* the variables of the rate limiter and of the rest of the service
limiter == <<rateLimitStore, now, windowLog, allowLog, unpurged>>
browser == <<client, polls>>
service == <<posts, runs, reply, browser>>

vars == <<maxConcurrent, running, jobs, job, exec, dirs, workspace, nextId,
          thrown, statusLog, reclaims, admitted, outside, immediates,
          submitted, attempts, served, limiter, service>>

Ids == 1..(MaxJobs + 1)
\* an id that enqueue never issues
UnknownId == 0

\* ------------------------------------------------------------------------
\* File names: path.extname / path.basename split a name into base and ext;
\* dir is the directory part of the name ("" when it has none)
\* ------------------------------------------------------------------------
FileNames ==
    { [dir |-> "", base |-> "a", ext |-> ".pptx"],
      [dir |-> "", base |-> "n", ext |-> ".txt"] }

\* names a caller of enqueue may hand in besides: an upper-case extension
\* with the base of another file, a third presentation, a name that climbs
\* out of the directory it is joined to, and a name inside a subdirectory
UploadNames ==
    FileNames \cup
    { [dir |-> "",    base |-> "a", ext |-> ".PPT"],
      [dir |-> "",    base |-> "b", ext |-> ".ppt"],
      [dir |-> "..",  base |-> "a", ext |-> ".pptx"],
      [dir |-> "sub", base |-> "a", ext |-> ".pptx"] }

RECURSIVE SeqsUpTo(_, _)
SeqsUpTo(S, n) ==
    IF n = 0 THEN { <<>> }
    ELSE LET shorter == SeqsUpTo(S, n - 1)
         IN  shorter \cup { Append(s, x) : s \in shorter, x \in S }

\* the file lists a caller may submit
FileLists == SeqsUpTo(FileNames, MaxFiles)
UploadLists == SeqsUpTo(UploadNames, MaxUploads)

\* the submissions explored for the scheduling behaviour: no file, or
\* presentations only
Decks == { f \in FileNames : f.ext = ".pptx" }
DeckLists == SeqsUpTo(Decks, MaxFiles)

ToLowerCase(ext) ==
    CASE ext = ".PPT"  -> ".ppt"
      [] ext = ".PPTX" -> ".pptx"
      [] OTHER         -> ext

IsPresentation(f) == ToLowerCase(f.ext) \in { ".ppt", ".pptx" }

RECURSIVE FilterSeq(_)
FilterSeq(s) ==
    IF s = <<>> THEN <<>>
    ELSE IF IsPresentation(Head(s)) THEN <<Head(s)>> \o FilterSeq(Tail(s))
         ELSE FilterSeq(Tail(s))

InSeq(x, s) == \E i \in 1..Len(s) : s[i] = x

\* path.join(tempDir, f.name): the directory the write of line 74 goes to
JoinDir(id, f) ==
    CASE f.dir = ""   -> [at |-> "job", sub |-> ""]
      [] f.dir = ".." -> [at |-> "tmp", sub |-> ""]
      [] OTHER        -> [at |-> "job", sub |-> f.dir]

\* nothing written yet: the listing of the fresh temp directory, the files
\* written next to it, no exception
NoneStaged == [ listing |-> <<>>, outside |-> {}, err |-> "none" ]

\* fs.writeFileSync(path.join(tempDir, f.name), f.buffer): a second write to
\* the same path overwrites the first, a write into a directory that does
\* not exist throws
WriteFile(st, id, f) ==
    LET d == JoinDir(id, f)
    IN  IF d.sub # "" THEN [st EXCEPT !.err = "ENOENT"]
        ELSE IF d.at = "tmp"
             THEN [st EXCEPT !.outside = @ \cup { [base |-> f.base, ext |-> f.ext] }]
             ELSE IF InSeq(f, st.listing) THEN st
                  ELSE [st EXCEPT !.listing = Append(@, f)]

RECURSIVE StageFiles(_, _, _)
\* the loop of lines 73-75, left at the first write that throws
StageFiles(st, id, files) ==
    IF files = <<>> \/ st.err # "none" THEN st
    ELSE StageFiles(WriteFile(st, id, Head(files)), id, Tail(files))

OutputPath(id, f) == [dir |-> id, base |-> f.base, ext |-> ".pdf"]

\* ------------------------------------------------------------------------
\* The queue state handled by the methods, as one record
\* ------------------------------------------------------------------------
\* (every operation starts with no exception in flight)
Q == [ running |-> running, jobs |-> jobs, job |-> job, exec |-> exec,
       dirs |-> dirs, workspace |-> workspace, thrown |-> "none",
       statusLog |-> statusLog, reclaims |-> reclaims,
       admitted |-> admitted, outside |-> outside,
       submitted |-> submitted, attempts |-> attempts ]

SetQ(q) ==
    /\ running' = q.running
    /\ jobs' = q.jobs
    /\ job' = q.job
    /\ exec' = q.exec
    /\ dirs' = q.dirs
    /\ workspace' = q.workspace
    /\ thrown' = q.thrown
    /\ statusLog' = q.statusLog
    /\ reclaims' = q.reclaims
    /\ admitted' = q.admitted
    /\ outside' = q.outside
    /\ submitted' = q.submitted
    /\ attempts' = q.attempts

InStore(q, id) == InSeq(id, q.jobs)

\* mutant: the TTL timer is armed when the job is created
NewJob_TimerAtSubmit(id) ==
    [ id |-> id, status |-> "pending", position |-> 0, tempDir |-> id,
      outputPaths |-> <<>>, error |-> "undefined", timer |-> "armed" ]

\* mutant: every job works in the same directory
NewJob_SharedDir(id) ==
    [ id |-> id, status |-> "pending", position |-> 0, tempDir |-> 0,
      outputPaths |-> <<>>, error |-> "undefined", timer |-> "none" ]

NewJob(id) ==
    [ id |-> id, status |-> "pending", position |-> 0, tempDir |-> id,
      outputPaths |-> <<>>, error |-> "undefined", timer |-> "none" ]

NotAdmitted == [ by |-> "none", left |-> 0 ]

IdleExec == [ pc |-> "idle", files |-> <<>>, idx |-> 0 ]

\* ------------------------------------------------------------------------
\* _updatePositions
\* ------------------------------------------------------------------------
RECURSIVE UpdateWalk(_, _, _)
UpdateWalk(order, jb, pos) ==
    IF order = <<>> THEN jb
    ELSE LET id == Head(order)
         IN  IF jb[id].status = "pending"
             THEN UpdateWalk(Tail(order),
                             [jb EXCEPT ![id].position = pos], pos + 1)
             ELSE UpdateWalk(Tail(order),
                             [jb EXCEPT ![id].position = 0], pos)

\* mutant: positions counted from 0
UpdatePositions_FromZero(q) == [q EXCEPT !.job = UpdateWalk(q.jobs, q.job, 0)]

UpdatePositions(q) == [q EXCEPT !.job = UpdateWalk(q.jobs, q.job, 1)]

\* ------------------------------------------------------------------------
\* _nextPendingJob: first pending job in Map order, 0 when there is none
\* ------------------------------------------------------------------------
RECURSIVE FindPending(_, _)
FindPending(order, jb) ==
    IF order = <<>> THEN 0
    ELSE IF jb[Head(order)].status = "pending" THEN Head(order)
         ELSE FindPending(Tail(order), jb)

RECURSIVE Reverse(_)
Reverse(s) == IF s = <<>> THEN <<>> ELSE Append(Reverse(Tail(s)), Head(s))

\* mutant: the newest pending job is picked
NextPendingJob_Newest(q) == FindPending(Reverse(q.jobs), q.job)

\* mutant: the oldest job of the store is picked whatever its status
NextPendingJob_Oldest(q) == IF q.jobs = <<>> THEN 0 ELSE Head(q.jobs)

NextPendingJob(q) == FindPending(q.jobs, q.job)

\* ------------------------------------------------------------------------
\* _run
\* ------------------------------------------------------------------------
SetStatus(q, id, st) ==
    [q EXCEPT !.job[id].status = st,
              !.statusLog[id] = Append(@, st)]

\* mutant: the TTL timer is armed for a job that is done only
ArmAndSettle_DoneOnly(q, id) ==
    [q EXCEPT !.job[id].timer = IF q.job[id].status = "done" THEN "armed" ELSE @,
              !.exec[id].pc = "settled"]

\* line 169: arm the TTL timer; the promise of _run resolves
ArmAndSettle(q, id) ==
    [q EXCEPT !.job[id].timer = "armed",
              !.exec[id].pc = "settled"]

\* mutant: a job without output is put back in the queue
Finalize_Retry(q, id) ==
    IF q.job[id].outputPaths = <<>>
    THEN SetStatus(q, id, "pending")
    ELSE SetStatus(q, id, "done")

\* mutant: line 159 is missing, the error status comes without message
Finalize_NoMessage(q, id) ==
    IF q.job[id].outputPaths = <<>>
    THEN SetStatus(q, id, "error")
    ELSE SetStatus(q, id, "done")

\* lines 157-162: all files attempted
Finalize(q, id) ==
    IF q.job[id].outputPaths = <<>>
    THEN [SetStatus(q, id, "error") EXCEPT
              !.job[id].error = "All conversions failed."]
    ELSE SetStatus(q, id, "done")

\* mutant: a job without input files counts as done
RunSync_EmptyIsDone(q, id, listOk) ==
    IF ~listOk
    THEN ArmAndSettle([SetStatus(q, id, "error") EXCEPT
                           !.job[id].error = "ENOENT"], id)
    ELSE LET inputFiles == FilterSeq(q.workspace[id])
         IN  IF inputFiles = <<>>
             THEN ArmAndSettle(SetStatus(q, id, "done"), id)
             ELSE [q EXCEPT !.exec[id] =
                       [pc |-> "converting", files |-> inputFiles, idx |-> 1]]

\* mutant: no catch block, the exception of readdirSync rejects the promise
RunSync_Uncaught(q, id, listOk) ==
    IF ~listOk
    THEN [q EXCEPT !.exec[id].pc = "settled"]
    ELSE LET inputFiles == FilterSeq(q.workspace[id])
         IN  IF inputFiles = <<>>
             THEN ArmAndSettle(Finalize(q, id), id)
             ELSE [q EXCEPT !.exec[id] =
                       [pc |-> "converting", files |-> inputFiles, idx |-> 1]]

\* the part of _run executed synchronously inside _scheduleNext, up to the
\* first await; listOk = FALSE is readdirSync throwing
RunSync(q, id, listOk) ==
    IF ~listOk
    THEN ArmAndSettle([SetStatus(q, id, "error") EXCEPT
                           !.job[id].error = "ENOENT"], id)
    ELSE LET inputFiles == FilterSeq(q.workspace[id])
         IN  IF inputFiles = <<>>
             THEN ArmAndSettle(Finalize(q, id), id)
             ELSE [q EXCEPT !.exec[id] =
                       [pc |-> "converting", files |-> inputFiles, idx |-> 1]]

\* the continuation of _run when the awaited convertFileDirect returns ok
RunResume(q, id, ok) ==
    LET e  == q.exec[id]
        q0 == [q EXCEPT !.attempts[id] =
                  Append(@, [file |-> e.files[e.idx], ok |-> ok])]
        q1 == IF ok
              THEN [q0 EXCEPT !.job[id].outputPaths =
                        Append(@, OutputPath(id, e.files[e.idx]))]
              ELSE q0
    IN  IF e.idx < Len(e.files)
        THEN [q1 EXCEPT !.exec[id].idx = e.idx + 1]
        ELSE ArmAndSettle(Finalize(q1, id), id)

\* ------------------------------------------------------------------------
\* _scheduleNext (without the .finally callback, which is Drain below);
\* by names the caller for the admitted history
\* ------------------------------------------------------------------------
PendingCount(q) ==
    Cardinality({ i \in 1..Len(q.jobs) : q.job[q.jobs[i]].status = "pending" })

\* mutant: lines 131 and 132 are missing, the position is not cleared
Admit_NoClear(q, next, by, listOk) ==
    LET q1 == [SetStatus(q, next, "running") EXCEPT
                   !.running = q.running + 1]
        q3 == [q1 EXCEPT !.admitted[next] =
                  [by |-> by, left |-> PendingCount(q1)]]
    IN  RunSync(q3, next, listOk)

\* lines 129-134: admit job next and run it up to its first await
Admit(q, next, by, listOk) ==
    LET q1 == [SetStatus(q, next, "running") EXCEPT
                   !.running = q.running + 1,
                   !.job[next].position = 0]
        q2 == UpdatePositions(q1)
        q3 == [q2 EXCEPT !.admitted[next] =
                  [by |-> by, left |-> PendingCount(q2)]]
    IN  RunSync(q3, next, listOk)

\* mutant: the slot check of line 120 is missing
ScheduleNext_NoSlotCheck(q, by, listOk) ==
    LET next == NextPendingJob(q)
    IN  IF next = 0 THEN q ELSE Admit(q, next, by, listOk)

ScheduleNext(q, by, listOk) ==
    IF q.running >= maxConcurrent THEN q
    ELSE LET next == NextPendingJob(q)
         IN  IF next = 0 THEN q ELSE Admit(q, next, by, listOk)

\* mutant: a job that ended in error releases its slot but does not drain
Drain_SkipOnError(q, id, listOk) ==
    LET q1 == [q EXCEPT !.running = q.running - 1,
                        !.exec[id].pc = "released"]
    IN  IF q.job[id].status = "error" THEN q1
        ELSE ScheduleNext(q1, "drain", listOk)

\* mutant: the .finally callback frees the slot but does not drain
Drain_NoSchedule(q, id, listOk) ==
    [q EXCEPT !.running = q.running - 1,
              !.exec[id].pc = "released"]

\* mutant: the .finally callback does not give the slot back
Drain_NoDecrement(q, id, listOk) ==
    ScheduleNext([q EXCEPT !.exec[id].pc = "released"], "drain", listOk)

\* the .finally callback of lines 134-137
Drain(q, id, listOk) ==
    ScheduleNext([q EXCEPT !.running = q.running - 1,
                           !.exec[id].pc = "released"], "drain", listOk)

\* ------------------------------------------------------------------------
\* enqueue
\* ------------------------------------------------------------------------
\* lines 68-75: the temp directory is created and the files are written
Staged(q, id, files) ==
    LET st == StageFiles(NoneStaged, id, files)
    IN  [q EXCEPT !.dirs = q.dirs \cup {id},
                  !.workspace = Append(q.workspace, st.listing),
                  !.outside = q.outside \cup st.outside,
                  !.submitted = Append(q.submitted, files),
                  !.thrown = st.err]

\* lines 77-85: the job record is created and stored
Insert(q, id) ==
    LET known == DOMAIN q.job \cup {id}
    IN  [q EXCEPT
            !.jobs = Append(q.jobs, id),
            !.job = [i \in known |-> IF i = id THEN NewJob(id) ELSE q.job[i]],
            !.exec = [i \in known |-> IF i = id THEN IdleExec ELSE q.exec[i]],
            !.statusLog = [i \in known |->
                              IF i = id THEN <<"pending">> ELSE q.statusLog[i]],
            !.reclaims = [i \in known |-> IF i = id THEN 0 ELSE q.reclaims[i]],
            !.admitted = [i \in known |->
                             IF i = id THEN NotAdmitted ELSE q.admitted[i]],
            !.attempts = [i \in known |-> IF i = id THEN <<>> ELSE q.attempts[i]]]

\* enqueue; a write that throws leaves it before line 77
EnqueueQ(q, id, files, listOk) ==
    LET q1 == Staged(q, id, files)
    IN  IF q1.thrown # "none" THEN q1
        ELSE ScheduleNext(UpdatePositions(Insert(q1, id)), "enqueue", listOk)

\* ------------------------------------------------------------------------
\* cleanup; rmOk = FALSE is rmSync failing (caught by _removeTempDir)
\* ------------------------------------------------------------------------
ClearTimeout(t) == IF t = "armed" THEN "cancelled" ELSE t

RECURSIVE RemoveKey(_, _)
RemoveKey(order, id) ==
    IF order = <<>> THEN <<>>
    ELSE IF Head(order) = id THEN Tail(order)
         ELSE <<Head(order)>> \o RemoveKey(Tail(order), id)

\* mutant: the early return of line 109 is missing
CleanupQ_NoGuard(q, id, rmOk) ==
    IF ~InStore(q, id) THEN [q EXCEPT !.thrown = "TypeError"]
    ELSE [q EXCEPT !.job[id].timer = ClearTimeout(@),
                   !.dirs = IF rmOk THEN q.dirs \ {q.job[id].tempDir} ELSE q.dirs,
                   !.jobs = RemoveKey(q.jobs, id),
                   !.reclaims[id] = @ + 1]

\* mutant: no early return, a job that was removed is reclaimed again
CleanupQ_Again(q, id, rmOk) ==
    IF id \notin DOMAIN q.job THEN q
    ELSE [q EXCEPT !.job[id].timer = ClearTimeout(@),
                   !.dirs = IF rmOk THEN q.dirs \ {q.job[id].tempDir} ELSE q.dirs,
                   !.jobs = RemoveKey(q.jobs, id),
                   !.reclaims[id] = @ + 1]

\* mutant: _removeTempDir has no try/catch, a failing rmSync leaves cleanup
CleanupQ_RmThrows(q, id, rmOk) ==
    IF ~InStore(q, id) THEN q
    ELSE IF ~rmOk
         THEN [q EXCEPT !.job[id].timer = ClearTimeout(@),
                        !.thrown = "EPERM"]
         ELSE [q EXCEPT !.job[id].timer = ClearTimeout(@),
                        !.dirs = q.dirs \ {q.job[id].tempDir},
                        !.jobs = RemoveKey(q.jobs, id),
                        !.reclaims[id] = @ + 1]

\* mutant: cleanup of a running job gives its slot back
CleanupQ_Cancels(q, id, rmOk) ==
    IF ~InStore(q, id) THEN q
    ELSE [q EXCEPT !.job[id].timer = ClearTimeout(@),
                   !.dirs = IF rmOk THEN q.dirs \ {q.job[id].tempDir} ELSE q.dirs,
                   !.jobs = RemoveKey(q.jobs, id),
                   !.reclaims[id] = @ + 1,
                   !.running = IF q.job[id].status = "running"
                               THEN q.running - 1 ELSE q.running]

\* mutant: the record is not deleted from the Map
CleanupQ_KeepsRecord(q, id, rmOk) ==
    IF ~InStore(q, id) THEN q
    ELSE [q EXCEPT !.job[id].timer = ClearTimeout(@),
                   !.dirs = IF rmOk THEN q.dirs \ {q.job[id].tempDir} ELSE q.dirs,
                   !.reclaims[id] = @ + 1]

CleanupQ(q, id, rmOk) ==
    IF ~InStore(q, id) THEN q
    ELSE [q EXCEPT !.job[id].timer = ClearTimeout(@),
                   !.dirs = IF rmOk THEN q.dirs \ {q.job[id].tempDir} ELSE q.dirs,
                   !.jobs = RemoveKey(q.jobs, id),
                   !.reclaims[id] = @ + 1]

\* ------------------------------------------------------------------------
\* getJob, getStats and GET /api/job/:jobId
\* ------------------------------------------------------------------------
\* Job | undefined, as a sequence of at most one job
GetJob(q, id) == IF InStore(q, id) THEN <<q.job[id]>> ELSE <<>>

GetStats(q) ==
    [ running |-> q.running, pending |-> PendingCount(q),
      maxConcurrent |-> maxConcurrent ]

JobStatusResponse(q, id) ==
    LET found == GetJob(q, id)
        j == found[1]
    IN  IF found = <<>>
        THEN [code |-> 404, error |-> "Job not found or expired."]
        ELSE CASE j.status = "pending" ->
                    [code |-> 200, status |-> "pending", position |-> j.position]
               [] j.status = "running" ->
                    [code |-> 200, status |-> "running"]
               [] j.status = "done" ->
                    [code |-> 200, status |-> "done",
                     fileCount |-> Len(j.outputPaths), downloadUrl |-> id]
               [] j.status = "error" ->
                    [code |-> 200, status |-> "error", message |-> j.error]

\* ------------------------------------------------------------------------
\* GET /api/job/:jobId/download; readOk = FALSE is readFileSync or the zip
\* library throwing
\* ------------------------------------------------------------------------
\* mutant: the status of the job is not looked at
DownloadResponse_NoReadyCheck(q, id, readOk) ==
    LET found == GetJob(q, id)
        j == found[1]
    IN  IF found = <<>>
        THEN [code |-> 404, error |-> "Job not found or expired."]
        ELSE IF readOk THEN [code |-> 200, files |-> j.outputPaths]
             ELSE [code |-> 500, error |-> "Download failed."]

DownloadResponse(q, id, readOk) ==
    LET found == GetJob(q, id)
        j == found[1]
    IN  IF found = <<>>
        THEN [code |-> 404, error |-> "Job not found or expired."]
        ELSE IF j.status # "done"
             THEN [code |-> 409, error |-> j.status]
             ELSE IF readOk THEN [code |-> 200, files |-> j.outputPaths]
                  ELSE [code |-> 500, error |-> "Download failed."]

\* ------------------------------------------------------------------------
\* checkRateLimit (trpc-context.ts)
\* ------------------------------------------------------------------------
\* the caller addresses extractIp can return
IPs == { "10.0.0.1", "10.0.0.2" }

\* rateLimitStore.get(ip) is undefined; a stored entry has count >= 1
NoEntry == [ count |-> 0, windowStart |-> 0 ]

\* mutant: every caller is counted in one entry
CheckRateLimit_OneEntry(store, ip, t) ==
    LET key   == CHOOSE k \in IPs : TRUE
        entry == store[key]
    IN  IF entry = NoEntry \/ t - entry.windowStart > RATE_LIMIT_WINDOW_MS
        THEN [ store |-> [store EXCEPT ![key] = [count |-> 1, windowStart |-> t]],
               allowed |-> TRUE ]
        ELSE IF entry.count >= RATE_LIMIT_MAX_REQUESTS
             THEN [ store |-> store, allowed |-> FALSE ]
             ELSE [ store |-> [store EXCEPT ![key].count = @ + 1],
                    allowed |-> TRUE ]

\* mutant: the window is over as soon as RATE_LIMIT_WINDOW_MS have passed
CheckRateLimit_AtWindow(store, ip, t) ==
    LET entry == store[ip]
    IN  IF entry = NoEntry \/ t - entry.windowStart >= RATE_LIMIT_WINDOW_MS
        THEN [ store |-> [store EXCEPT ![ip] = [count |-> 1, windowStart |-> t]],
               allowed |-> TRUE ]
        ELSE IF entry.count >= RATE_LIMIT_MAX_REQUESTS
             THEN [ store |-> store, allowed |-> FALSE ]
             ELSE [ store |-> [store EXCEPT ![ip].count = @ + 1],
                    allowed |-> TRUE ]

\* checkRateLimit(ip) when Date.now() is t: the store it leaves and what it
\* returns
CheckRateLimit(store, ip, t) ==
    LET entry == store[ip]
    IN  IF entry = NoEntry \/ t - entry.windowStart > RATE_LIMIT_WINDOW_MS
        THEN [ store |-> [store EXCEPT ![ip] = [count |-> 1, windowStart |-> t]],
               allowed |-> TRUE ]
        ELSE IF entry.count >= RATE_LIMIT_MAX_REQUESTS
             THEN [ store |-> store, allowed |-> FALSE ]
             ELSE [ store |-> [store EXCEPT ![ip].count = @ + 1],
                    allowed |-> TRUE ]

\* getRateLimitStats(ip) when Date.now() is t
GetRateLimitStats(store, ip, t) ==
    LET entry == store[ip]
    IN  IF entry = NoEntry \/ t - entry.windowStart > RATE_LIMIT_WINDOW_MS
        THEN [ remaining |-> RATE_LIMIT_MAX_REQUESTS,
               windowResetMs |-> RATE_LIMIT_WINDOW_MS ]
        ELSE [ remaining |-> IF RATE_LIMIT_MAX_REQUESTS - entry.count > 0
                             THEN RATE_LIMIT_MAX_REQUESTS - entry.count
                             ELSE 0,
               windowResetMs |->
                   RATE_LIMIT_WINDOW_MS - (t - entry.windowStart) ]

\* mutant: an entry is purged as soon as RATE_LIMIT_WINDOW_MS have passed
PurgeStore_AtWindow(store, t) ==
    [ ip \in IPs |->
        IF store[ip] # NoEntry
           /\ t - store[ip].windowStart >= RATE_LIMIT_WINDOW_MS
        THEN NoEntry ELSE store[ip] ]

\* the callback of the purge interval when Date.now() is t: the store it
\* leaves
PurgeStore(store, t) ==
    [ ip \in IPs |->
        IF store[ip] # NoEntry
           /\ t - store[ip].windowStart > RATE_LIMIT_WINDOW_MS * 2
        THEN NoEntry ELSE store[ip] ]

\* history of one caller: the start of its window, the calls made in the
\* window and how many of them returned true.  A window starts with the
\* caller's first call and with its first call made more than
\* RATE_LIMIT_WINDOW_MS after the start of the window before.
NoWindow == [ start |-> 0, calls |-> 0, allowed |-> 0 ]

Observe(w, t, allowed) ==
    LET n == IF allowed THEN 1 ELSE 0
    IN  IF w.calls = 0 \/ t - w.start > RATE_LIMIT_WINDOW_MS
        THEN [ start |-> t, calls |-> 1, allowed |-> n ]
        ELSE [ start |-> w.start, calls |-> w.calls + 1,
               allowed |-> w.allowed + n ]

\* the clock advances by half a window, or by a millisecond more
TickSteps == { RATE_LIMIT_WINDOW_MS \div 2, RATE_LIMIT_WINDOW_MS \div 2 + 1 }
MaxClock == MaxTicks * (RATE_LIMIT_WINDOW_MS \div 2 + 1)
\* the clock advances by a whole window, or by a millisecond more
WindowSteps == { RATE_LIMIT_WINDOW_MS, RATE_LIMIT_WINDOW_MS + 1 }
MaxPurgeClock == MaxWindows * (RATE_LIMIT_WINDOW_MS + 1)

\* the caller may call again: its window is over or it has made fewer than
\* MaxExtra calls past the limit
MayCall(ip) ==
    \/ windowLog[ip].calls < RATE_LIMIT_MAX_REQUESTS + MaxExtra
    \/ now - windowLog[ip].start > RATE_LIMIT_WINDOW_MS

\* the effect of one call of checkRateLimit(ip) on the limiter's variables
Limit(ip, observed) ==
    LET r == CheckRateLimit(rateLimitStore, ip, now)
    IN  /\ rateLimitStore' = r.store
        /\ unpurged' = CheckRateLimit(unpurged, ip, now).store
        /\ windowLog' = [windowLog EXCEPT ![ip] = Observe(@, now, r.allowed)]
        /\ allowLog' = IF observed /\ r.allowed
                       THEN Append(allowLog, now) ELSE allowLog
        /\ UNCHANGED now

\* ------------------------------------------------------------------------
\* The folder converter (services/converter.ts)
\* ------------------------------------------------------------------------
Min(a, b) == IF a <= b THEN a ELSE b

\* the names found in the input folder
FolderNames ==
    { [dir |-> "", base |-> "Ders 1", ext |-> ".pptx"],
      [dir |-> "", base |-> "Ders 2", ext |-> ".ppt"],
      [dir |-> "", base |-> "Ders 10", ext |-> ".PPTX"],
      [dir |-> "", base |-> "notlar", ext |-> ".txt"] }

\* place of a name in the order of localeCompare with numeric collation
Rank(f) ==
    CASE f.base = "Ders 1"  -> 1
      [] f.base = "Ders 2"  -> 2
      [] f.base = "Ders 10" -> 10
      [] OTHER              -> 11

RECURSIVE SortNames(_)
SortNames(S) ==
    IF S = {} THEN <<>>
    ELSE LET first == CHOOSE f \in S : \A g \in S : Rank(f) <= Rank(g)
         IN  <<first>> \o SortNames(S \ {first})

GetSortedPPTFiles(listing) == SortNames({ f \in listing : IsPresentation(f) })

\* arr.slice(start, end) for integers 0 <= start <= end
Slice(arr, start, end) == SubSeq(arr, start + 1, Min(end, Len(arr)))

\* the loop of chunk; size and i are counted in halves, and slice truncates
\* its arguments to integers
RECURSIVE ChunkFrom(_, _, _)
ChunkFrom(arr, size, i) ==
    IF i >= 2 * Len(arr) THEN <<>>
    ELSE <<Slice(arr, i \div 2, (i + size) \div 2)>>
             \o ChunkFrom(arr, size, i + size)

\* mutant: a last batch that is not full is left out
Chunk_FullOnly(arr, size) ==
    SelectSeq(ChunkFrom(arr, size, 0), LAMBDA b : 2 * Len(b) >= size)

Chunk(arr, size) == ChunkFrom(arr, size, 0)

\* runConversion up to its loop
NewRun(batchSize, listing) ==
    LET files == GetSortedPPTFiles(listing)
    IN  [ batchSize |-> batchSize, listing |-> listing, files |-> files,
          batches |-> IF files = <<>> THEN <<>> ELSE Chunk(files, batchSize),
          batchIndex |-> 0, started |-> <<>>, results |-> <<>>,
          successCount |-> 0, failCount |-> 0, pc |-> "awaiting" ]

\* batch.map(convertFile): convertFile is called for every file of the
\* batch; a file that cannot be read is rejected without a conversion.
\* started and results keep the files of the earlier batches as history.
Launch(run, unreadable) ==
    LET batch == run.batches[run.batchIndex]
    IN  [run EXCEPT
           !.started = @ \o batch,
           !.results = @ \o [i \in 1..Len(batch) |->
                                IF batch[i] \in unreadable
                                THEN "rejected" ELSE "pending"]]

\* the conversions of the run that are in flight
InFlight(run) ==
    Cardinality({ i \in DOMAIN run.results : run.results[i] = "pending" })

\* the positions of the current batch in started and results
CurrentBatch(run) ==
    (Len(run.started) - Len(run.batches[run.batchIndex]) + 1)..Len(run.started)

CountOf(run, status) ==
    Cardinality({ i \in CurrentBatch(run) : run.results[i] = status })

\* the loop of runConversion from the point where Promise.allSettled is
\* awaited: when nothing of the batch is in flight the results are counted
\* and the next batch is launched, or the function returns
RECURSIVE Proceed(_, _)
Proceed(run, unreadable) ==
    IF InFlight(run) > 0 THEN run
    ELSE LET counted ==
                 IF run.batchIndex = 0 THEN run
                 ELSE [run EXCEPT
                         !.successCount = @ + CountOf(run, "fulfilled"),
                         !.failCount = @ + CountOf(run, "rejected")]
         IN  IF counted.batchIndex >= Len(counted.batches)
             THEN [counted EXCEPT !.pc = "returned"]
             ELSE Proceed(Launch([counted EXCEPT !.batchIndex = @ + 1],
                                 unreadable), unreadable)

RunConversion(batchSize, listing, unreadable) ==
    Proceed(NewRun(batchSize, listing), unreadable)

\* the value runConversion returns
Result(run) ==
    [ success |-> run.successCount, failed |-> run.failCount,
      total |-> Len(run.files) ]

\* ------------------------------------------------------------------------
\* POST /api/convert
\* ------------------------------------------------------------------------
\* the next file of the loop that is not skipped, from position i on
RECURSIVE NextDeck(_, _)
NextDeck(files, i) ==
    IF i > Len(files) \/ IsPresentation(files[i]) THEN i
    ELSE NextDeck(files, i + 1)

RemoveAt(s, k) == SubSeq(s, 1, k - 1) \o SubSeq(s, k + 1, Len(s))

\* ------------------------------------------------------------------------
\* Endpoints: the procedures of the two tRPC routers and the HTTP routes
\* that answer with queue statistics
\* ------------------------------------------------------------------------
Endpoints ==
    { "health", "getJobStatus", "startFolderConversion", "getQueueStats",
      "listFiles", "getFiles", "startConversion",
      "GET /api/queue-status", "GET /api/health" }

\* the middleware a call passes before the input is parsed
Middlewares(e) ==
    CASE e \in { "getJobStatus", "getFiles", "startConversion" } ->
             << "rateLimit" >>
      [] e \in { "startFolderConversion", "getQueueStats", "listFiles" } ->
             << "rateLimit", "auth" >>
      [] OTHER -> << >>

\* the service functions the resolver or handler calls
Resolver(e) ==
    CASE e = "health" -> { "getFilesStatus", "getStats" }
      [] e = "getJobStatus" -> { "getJob" }
      [] e \in { "startFolderConversion", "startConversion" } ->
             { "runConversion" }
      [] e \in { "getQueueStats", "GET /api/queue-status", "GET /api/health" } ->
             { "getStats" }
      [] OTHER -> { "getFilesStatus" }

\* z.number().int().min(1).max(20), on a number counted in halves
BatchSizeSchema(batchSize) ==
    batchSize % 2 = 0 /\ batchSize >= 2 /\ batchSize <= 40

\* the input parser of the procedure
InputOk(e, batchSize) ==
    CASE e = "startFolderConversion" -> BatchSizeSchema(batchSize)
      [] e = "startConversion" -> batchSize >= 2 /\ batchSize <= 40
      [] OTHER -> TRUE

Outcome(e, allowed, isAuthenticated, batchSize) ==
    IF InSeq("rateLimit", Middlewares(e)) /\ ~allowed
    THEN "TOO_MANY_REQUESTS"
    ELSE IF InSeq("auth", Middlewares(e)) /\ ~isAuthenticated
         THEN "UNAUTHORIZED"
         ELSE IF ~InputOk(e, batchSize) THEN "BAD_REQUEST" ELSE "OK"

\* an answer: which endpoint was asked, whether the request carried a
\* valid API key, the code of the answer, the service functions that ran
\* for it and the queue statistics it holds, if any
NoReply ==
    [ endpoint |-> "none", isAuthenticated |-> FALSE, code |-> "none",
      ran |-> {}, queue |-> << >> ]

\* the batch sizes some procedure accepts
BatchSizes ==
    { h \in 1..MaxHalves :
        InputOk("startFolderConversion", h) \/ InputOk("startConversion", h) }

\* ------------------------------------------------------------------------
\* Initial state and actions
\* ------------------------------------------------------------------------
\* ------------------------------------------------------------------------
\* The page (app/page.tsx): status polling and download
\* ------------------------------------------------------------------------
NoClient ==
    [ status |-> "idle", pollRef |-> FALSE, jobId |-> UnknownId,
      requested |-> 0, saved |-> FALSE ]

\* stopPolling(): clearInterval and pollRef.current = null
stopPolling(c) == [c EXCEPT !.pollRef = FALSE]

\* the interval callback from the answer of GET /api/job/:jobId up to its
\* end or to the fetch of triggerDownload; lost is fetch rejecting
AfterStatus(c, res, lost) ==
    IF lost
    THEN [stopPolling(c) EXCEPT !.status = "error"]
    ELSE IF res.code # 200
    THEN [stopPolling(c) EXCEPT !.status = "error"]
    ELSE CASE res.status = "pending" -> [c EXCEPT !.status = "queued"]
           [] res.status = "running" -> [c EXCEPT !.status = "converting"]
           [] res.status = "done" ->
                  [stopPolling(c) EXCEPT !.requested = @ + 1]
           [] res.status = "error" ->
                  [stopPolling(c) EXCEPT !.status = "error"]

\* does the callback go on to triggerDownload
Downloads(res, lost) == ~lost /\ res.code = 200 /\ res.status = "done"

\* the interval callback from the answer of the download to its end:
\* triggerDownload throws unless res.ok, and the catch block runs
AfterDownload(c, code) ==
    IF code = 200
    THEN [c EXCEPT !.status = "done", !.saved = TRUE]
    ELSE [stopPolling(c) EXCEPT !.status = "error"]

Init ==
    /\ maxConcurrent \in 1..MaxK
    /\ running = 0
    /\ jobs = <<>>
    /\ job = <<>>
    /\ exec = <<>>
    /\ dirs = {}
    /\ workspace = <<>>
    /\ nextId = 1
    /\ thrown = "none"
    /\ statusLog = <<>>
    /\ reclaims = <<>>
    /\ admitted = <<>>
    /\ outside = {}
    /\ immediates = <<>>
    /\ submitted = <<>>
    /\ attempts = <<>>
    /\ served = {}
    /\ rateLimitStore = [ip \in IPs |-> NoEntry]
    /\ now = 0
    /\ windowLog = [ip \in IPs |-> NoWindow]
    /\ allowLog = <<>>
    /\ unpurged = [ip \in IPs |-> NoEntry]
    /\ posts = <<>>
    /\ runs = <<>>
    /\ reply = NoReply
    /\ client = NoClient
    /\ polls = <<>>

\* enqueue(files); listOk is the outcome of readdirSync should the job start
Enqueue(files, listOk) ==
    /\ nextId' = nextId + 1
    /\ SetQ(EnqueueQ(Q, nextId, files, listOk))
    /\ UNCHANGED <<maxConcurrent, immediates, served, limiter, service>>

\* a conversion of job id returns; it cannot have written its output when
\* the temp directory is gone
ConvertReturn(id, ok) ==
    /\ id \in DOMAIN job
    /\ exec[id].pc = "converting"
    /\ ok => id \in dirs
    /\ SetQ(RunResume(Q, id, ok))
    /\ UNCHANGED <<maxConcurrent, nextId, immediates, served, limiter,
                   service>>

\* the .finally callback of job id runs
Release(id, listOk) ==
    /\ id \in DOMAIN job
    /\ exec[id].pc = "settled"
    /\ SetQ(Drain(Q, id, listOk))
    /\ UNCHANGED <<maxConcurrent, nextId, immediates, served, limiter,
                   service>>

\* cleanup(id) called by a client of the queue
Cleanup(id, rmOk) ==
    /\ SetQ(CleanupQ(Q, id, rmOk))
    /\ UNCHANGED <<maxConcurrent, nextId, immediates, served, limiter,
                   service>>

\* the TTL timer of job id fires; timers are macrotasks, so the .finally
\* microtask queued when the timer was armed has already run
TimerFire(id, rmOk) ==
    /\ job[id].timer = "armed"
    /\ exec[id].pc = "released"
    /\ SetQ(CleanupQ([Q EXCEPT !.job[id].timer = "fired"], id, rmOk))
    /\ UNCHANGED <<maxConcurrent, nextId, immediates, served, limiter,
                   service>>

\* a download request for id is answered; an answer with a file queues the
\* cleanup of the job with setImmediate
Download(id, readOk) ==
    /\ DownloadResponse(Q, id, readOk).code = 200
    /\ immediates' = Append(immediates, id)
    /\ served' = served \cup {id}
    /\ UNCHANGED <<maxConcurrent, running, jobs, job, exec, dirs, workspace,
                   nextId, thrown, statusLog, reclaims, admitted, outside,
                   submitted, attempts, limiter, service>>

\* the oldest queued setImmediate callback runs cleanup
RunImmediate(rmOk) ==
    /\ immediates # <<>>
    /\ SetQ(CleanupQ(Q, Head(immediates), rmOk))
    /\ immediates' = Tail(immediates)
    /\ UNCHANGED <<maxConcurrent, nextId, served, limiter, service>>

\* checkRateLimit(ip) is called; observed tells whether the caller's
\* allowed calls are recorded in allowLog
RateLimitCall(ip, observed) ==
    /\ MayCall(ip)
    /\ Limit(ip, observed)
    /\ UNCHANGED <<maxConcurrent, running, jobs, job, exec, dirs, workspace,
                   nextId, thrown, statusLog, reclaims, admitted, outside,
                   immediates, submitted, attempts, served, service>>

\* time passes
Tick(d) ==
    /\ now + d <= MaxClock
    /\ now' = now + d
    /\ allowLog' = SelectSeq(allowLog,
                             LAMBDA t : t > now + d - RATE_LIMIT_WINDOW_MS)
    /\ UNCHANGED <<maxConcurrent, running, jobs, job, exec, dirs, workspace,
                   nextId, thrown, statusLog, reclaims, admitted, outside,
                   immediates, submitted, attempts, served, rateLimitStore,
                   windowLog, unpurged, service>>

\* time passes, up to MaxPurgeClock
Elapse(d) ==
    /\ now + d <= MaxPurgeClock
    /\ now' = now + d
    /\ allowLog' = SelectSeq(allowLog,
                             LAMBDA t : t > now + d - RATE_LIMIT_WINDOW_MS)
    /\ UNCHANGED <<maxConcurrent, running, jobs, job, exec, dirs, workspace,
                   nextId, thrown, statusLog, reclaims, admitted, outside,
                   immediates, submitted, attempts, served, rateLimitStore,
                   windowLog, unpurged, service>>

\* the callback of the purge interval runs.  The interval fires every five
\* minutes; here it may fire at any time.
Purge ==
    /\ rateLimitStore' = PurgeStore(rateLimitStore, now)
    /\ UNCHANGED <<maxConcurrent, running, jobs, job, exec, dirs, workspace,
                   nextId, thrown, statusLog, reclaims, admitted, outside,
                   immediates, submitted, attempts, served, now, windowLog,
                   allowLog, unpurged, service>>

\* runConversion(batchSize) is called on a folder holding listing
StartConversion(batchSize, listing, unreadable) ==
    /\ Len(runs) < MaxRuns
    /\ runs' = Append(runs, RunConversion(batchSize, listing, unreadable))
    /\ UNCHANGED <<maxConcurrent, running, jobs, job, exec, dirs, workspace,
                   nextId, thrown, statusLog, reclaims, admitted, outside,
                   immediates, submitted, attempts, served, limiter, posts,
                   reply, browser>>

\* the conversion of the i-th file started by run r settles; when it is the
\* last of its batch the loop of runConversion goes on
Settle(r, i, ok, unreadable) ==
    /\ r \in DOMAIN runs
    /\ runs[r].pc = "awaiting"
    /\ i \in DOMAIN runs[r].results
    /\ runs[r].results[i] = "pending"
    /\ runs' = [runs EXCEPT ![r] =
                   Proceed([@ EXCEPT !.results[i] =
                               IF ok THEN "fulfilled" ELSE "rejected"],
                           unreadable)]
    /\ UNCHANGED <<maxConcurrent, running, jobs, job, exec, dirs, workspace,
                   nextId, thrown, statusLog, reclaims, admitted, outside,
                   immediates, submitted, attempts, served, limiter, posts,
                   reply, browser>>

\* a POST /api/convert request arrives; the handler runs up to its first
\* call of convertFileDirect.  Its temp directory exists for as long as the
\* request is in posts.
PostConvert(files, isAuthenticated) ==
    /\ Len(posts) < MaxPosts
    /\ LET first == NextDeck(files, 1)
           answer(code) ==
               [ endpoint |-> "POST /api/convert",
                 isAuthenticated |-> isAuthenticated, code |-> code,
                 ran |-> {}, queue |-> << >> ]
       IN  IF files = << >>
           THEN reply' = answer("400") /\ UNCHANGED posts
           ELSE IF first > Len(files)
                THEN reply' = answer("500") /\ UNCHANGED posts
                ELSE /\ posts' = Append(posts,
                                     [ files |-> files, idx |-> first,
                                       convertedPaths |-> << >>,
                                       isAuthenticated |-> isAuthenticated ])
                     /\ UNCHANGED reply
    /\ UNCHANGED <<maxConcurrent, running, jobs, job, exec, dirs, workspace,
                   nextId, thrown, statusLog, reclaims, admitted, outside,
                   immediates, submitted, attempts, served, limiter, runs,
                   browser>>

\* the convertFileDirect call awaited by the k-th request returns; the
\* handler goes on to the next file or answers
PostConvertReturn(k, success) ==
    /\ k \in DOMAIN posts
    /\ LET p == posts[k]
           convertedPaths ==
               IF success THEN Append(p.convertedPaths, p.files[p.idx])
               ELSE p.convertedPaths
           next == NextDeck(p.files, p.idx + 1)
       IN  IF next <= Len(p.files)
           THEN /\ posts' = [posts EXCEPT ![k].idx = next,
                                         ![k].convertedPaths = convertedPaths]
                /\ UNCHANGED reply
           ELSE /\ posts' = RemoveAt(posts, k)
                /\ reply' =
                       [ endpoint |-> "POST /api/convert",
                         isAuthenticated |-> p.isAuthenticated,
                         code |-> IF convertedPaths = << >>
                                  THEN "500" ELSE "200",
                         ran |-> {}, queue |-> << >> ]
    /\ UNCHANGED <<maxConcurrent, running, jobs, job, exec, dirs, workspace,
                   nextId, thrown, statusLog, reclaims, admitted, outside,
                   immediates, submitted, attempts, served, limiter, runs,
                   browser>>

\* a request to endpoint e from address ip, with or without a valid API
\* key: the middleware, the input parser and the start of the resolver
Request(e, ip, isAuthenticated, batchSize, listing, unreadable) ==
    LET limited == InSeq("rateLimit", Middlewares(e))
        allowed == CheckRateLimit(rateLimitStore, ip, now).allowed
        code    == Outcome(e, allowed, isAuthenticated, batchSize)
        starts  == code = "OK" /\ "runConversion" \in Resolver(e)
    IN  /\ limited => MayCall(ip)
        /\ starts => Len(runs) < MaxRuns
        /\ IF limited THEN Limit(ip, FALSE) ELSE UNCHANGED limiter
        /\ runs' = IF starts
                   THEN Append(runs,
                               RunConversion(batchSize, listing, unreadable))
                   ELSE runs
        /\ reply' =
               [ endpoint |-> e, isAuthenticated |-> isAuthenticated,
                 code |-> code,
                 ran |-> IF code = "OK" THEN Resolver(e) ELSE {},
                 queue |-> IF code = "OK" /\ "getStats" \in Resolver(e)
                           THEN << GetStats(Q) >> ELSE << >> ]
        /\ UNCHANGED <<maxConcurrent, running, jobs, job, exec, dirs,
                       workspace, nextId, thrown, statusLog, reclaims,
                       admitted, outside, immediates, submitted, attempts,
                       served, posts, browser>>

\* handleUpload: the files are posted, the server enqueues them and answers
\* 202 with the id, and onload starts the poll interval
Upload(files) ==
    /\ client.status = "idle"
    /\ nextId' = nextId + 1
    /\ SetQ(EnqueueQ(Q, nextId, files, TRUE))
    /\ client' = [client EXCEPT !.status = "queued", !.pollRef = TRUE,
                                !.jobId = nextId]
    /\ UNCHANGED <<maxConcurrent, immediates, served, limiter, posts, runs,
                   reply, polls>>

\* the interval fires: a callback starts and sends GET /api/job/:jobId
PollTick ==
    /\ client.pollRef
    /\ Len(polls) < MaxPolls
    /\ polls' = Append(polls, [pc |-> "status", res |-> [code |-> 0]])
    /\ UNCHANGED <<maxConcurrent, running, jobs, job, exec, dirs, workspace,
                   nextId, thrown, statusLog, reclaims, admitted, outside,
                   immediates, submitted, attempts, served, limiter, posts,
                   runs, reply, client>>

\* the server answers the status request of callback k
ServeStatus(k) ==
    /\ k \in DOMAIN polls
    /\ polls[k].pc = "status"
    /\ polls' = [polls EXCEPT ![k] =
                    [pc |-> "statusAnswered",
                     res |-> JobStatusResponse(Q, client.jobId)]]
    /\ UNCHANGED <<maxConcurrent, running, jobs, job, exec, dirs, workspace,
                   nextId, thrown, statusLog, reclaims, admitted, outside,
                   immediates, submitted, attempts, served, limiter, posts,
                   runs, reply, client>>

\* callback k resumes with the answer to its status request
ReceiveStatus(k, lost) ==
    /\ k \in DOMAIN polls
    /\ polls[k].pc = "statusAnswered"
    /\ client' = AfterStatus(client, polls[k].res, lost)
    /\ polls' = [polls EXCEPT ![k].pc =
                    IF Downloads(polls[k].res, lost)
                    THEN "download" ELSE "end"]
    /\ UNCHANGED <<maxConcurrent, running, jobs, job, exec, dirs, workspace,
                   nextId, thrown, statusLog, reclaims, admitted, outside,
                   immediates, submitted, attempts, served, limiter, posts,
                   runs, reply>>

\* the server answers the download request of callback k; an answer with a
\* file queues the cleanup of the job with setImmediate
ServeDownload(k, readOk) ==
    /\ k \in DOMAIN polls
    /\ polls[k].pc = "download"
    /\ LET res == DownloadResponse(Q, client.jobId, readOk)
       IN  /\ polls' = [polls EXCEPT ![k] =
                           [pc |-> "downloadAnswered",
                            res |-> [code |-> res.code]]]
           /\ IF res.code = 200
              THEN /\ immediates' = Append(immediates, client.jobId)
                   /\ served' = served \cup {client.jobId}
              ELSE UNCHANGED <<immediates, served>>
    /\ UNCHANGED <<maxConcurrent, running, jobs, job, exec, dirs, workspace,
                   nextId, thrown, statusLog, reclaims, admitted, outside,
                   submitted, attempts, limiter, posts, runs, reply, client>>

\* callback k resumes with the answer to its download request
ReceiveDownload(k) ==
    /\ k \in DOMAIN polls
    /\ polls[k].pc = "downloadAnswered"
    /\ client' = AfterDownload(client, polls[k].res.code)
    /\ polls' = [polls EXCEPT ![k].pc = "end"]
    /\ UNCHANGED <<maxConcurrent, running, jobs, job, exec, dirs, workspace,
                   nextId, thrown, statusLog, reclaims, admitted, outside,
                   immediates, submitted, attempts, served, limiter, posts,
                   runs, reply>>

\* the queue in an environment where listing and deleting a directory may fail
Next ==
    \/ \E files \in DeckLists, listOk \in BOOLEAN :
           nextId <= MaxJobs /\ Enqueue(files, listOk)
    \/ \E id \in DOMAIN job, ok \in BOOLEAN : ConvertReturn(id, ok)
    \/ \E id \in DOMAIN job, listOk \in BOOLEAN : Release(id, listOk)
    \/ \E id \in {UnknownId} \cup DOMAIN job, rmOk \in BOOLEAN : Cleanup(id, rmOk)
    \/ \E id \in DOMAIN job, rmOk \in BOOLEAN : TimerFire(id, rmOk)

Spec == Init /\ [][Next]_vars

\* the queue with one more submission, one slot and a file system that
\* never fails
InitQ == Init /\ maxConcurrent = DEFAULT_MAX_CONCURRENT

NextQ ==
    \/ \E files \in DeckLists : nextId <= MaxJobs + 1 /\ Enqueue(files, TRUE)
    \/ \E id \in DOMAIN job, ok \in BOOLEAN : ConvertReturn(id, ok)
    \/ \E id \in DOMAIN job : Release(id, TRUE)
    \/ \E id \in {UnknownId} \cup DOMAIN job : Cleanup(id, TRUE)
    \/ \E id \in DOMAIN job : TimerFire(id, TRUE)

SpecQ == InitQ /\ [][NextQ]_vars

\* the queue behind the download route
NextD ==
    \/ \E files \in DeckLists : nextId <= MaxJobs /\ Enqueue(files, TRUE)
    \/ \E id \in DOMAIN job, ok \in BOOLEAN : ConvertReturn(id, ok)
    \/ \E id \in DOMAIN job : Release(id, TRUE)
    \/ \E id \in {UnknownId} \cup DOMAIN job : Cleanup(id, TRUE)
    \/ \E id \in DOMAIN job : TimerFire(id, TRUE)
    \/ \E id \in {UnknownId} \cup DOMAIN job, readOk \in BOOLEAN :
           Len(immediates) < MaxDownloads /\ Download(id, readOk)
    \/ \E rmOk \in BOOLEAN : RunImmediate(rmOk)

SpecD == Init /\ [][NextD]_vars

RECURSIVE Uploaded(_)
\* number of files handed to enqueue so far
Uploaded(lists) ==
    IF lists = <<>> THEN 0 ELSE Len(Head(lists)) + Uploaded(Tail(lists))

\* the queue fed with arbitrary file names, MaxUploads files in all, on a
\* file system where listing and deleting a directory never fail
NextS ==
    \/ \E files \in UploadLists :
           /\ nextId <= MaxBatches
           /\ Uploaded(submitted) + Len(files) <= MaxUploads
           /\ Enqueue(files, TRUE)
    \/ \E id \in DOMAIN job, ok \in BOOLEAN : ConvertReturn(id, ok)
    \/ \E id \in DOMAIN job : Release(id, TRUE)
    \/ \E id \in {UnknownId} \cup DOMAIN job : Cleanup(id, TRUE)
    \/ \E id \in DOMAIN job : TimerFire(id, TRUE)

SpecS == Init /\ [][NextS]_vars

\* the queue with a file system that never fails, every conversion
\* eventually returning and every queued .finally microtask eventually run
NextF ==
    \/ \E files \in DeckLists : nextId <= MaxJobs /\ Enqueue(files, TRUE)
    \/ \E id \in DOMAIN job, ok \in BOOLEAN : ConvertReturn(id, ok)
    \/ \E id \in DOMAIN job : Release(id, TRUE)
    \/ \E id \in {UnknownId} \cup DOMAIN job : Cleanup(id, TRUE)
    \/ \E id \in DOMAIN job : TimerFire(id, TRUE)

\* the exec entries _run can leave for job n when its synchronous part ends
StartOutcomes(n) ==
    { [pc |-> "converting", files |-> FilterSeq(workspace[n]), idx |-> 1],
      [pc |-> "settled", files |-> <<>>, idx |-> 0] }

\* the steps Release(id, TRUE) takes, described by what they do to exec
\* alone: the callback of job id has run and at most one idle job started
FinallyRuns(id) ==
    /\ id \in DOMAIN job
    /\ exec[id].pc = "settled"
    /\ LET after == [exec EXCEPT ![id].pc = "released"]
           idle  == { n \in DOMAIN exec : exec[n].pc = "idle" }
       IN  exec' \in {after} \cup
                     UNION { { [after EXCEPT ![n] = o] : o \in StartOutcomes(n) } :
                             n \in idle }

\* every awaited conversion eventually returns; every queued .finally
\* callback eventually runs (the microtask queue is always drained)
FairSpec ==
    /\ Init /\ [][NextF]_vars
    /\ WF_vars(\E id \in DOMAIN job, ok \in BOOLEAN : ConvertReturn(id, ok))
    /\ WF_exec(\E id \in DOMAIN job : FinallyRuns(id))

\* the queue on a file system where the deletion started by a TTL timer
\* may fail
NextT ==
    \/ \E files \in DeckLists : nextId <= MaxJobs /\ Enqueue(files, TRUE)
    \/ \E id \in DOMAIN job, ok \in BOOLEAN : ConvertReturn(id, ok)
    \/ \E id \in DOMAIN job : Release(id, TRUE)
    \/ \E id \in {UnknownId} \cup DOMAIN job : Cleanup(id, TRUE)
    \/ \E id \in DOMAIN job, rmOk \in BOOLEAN : TimerFire(id, rmOk)

\* every awaited conversion eventually returns, every queued .finally
\* callback eventually runs and every armed TTL timer eventually fires
TtlSpec ==
    /\ Init /\ [][NextT]_vars
    /\ WF_vars(\E id \in DOMAIN job, ok \in BOOLEAN : ConvertReturn(id, ok))
    /\ WF_exec(\E id \in DOMAIN job : FinallyRuns(id))
    /\ WF_vars(\E id \in DOMAIN job, rmOk \in BOOLEAN : TimerFire(id, rmOk))

\* the rate limiter called by two callers while time passes
NextR ==
    \/ \E ip \in IPs : RateLimitCall(ip, FALSE)
    \/ \E d \in TickSteps : Tick(d)

SpecR == InitQ /\ [][NextR]_vars

\* the rate limiter called by one caller whose allowed calls are recorded
Observed == CHOOSE ip \in IPs : TRUE

NextL ==
    \/ RateLimitCall(Observed, TRUE)
    \/ \E d \in TickSteps : Tick(d)

SpecL == InitQ /\ [][NextL]_vars

\* the rate limiter with its purge interval
NextP ==
    \/ \E ip \in IPs : RateLimitCall(ip, FALSE)
    \/ \E d \in TickSteps : Tick(d)
    \/ \E d \in WindowSteps : Elapse(d)
    \/ Purge

SpecP == InitQ /\ [][NextP]_vars

\* the folder converter alone, on every content of the input folder
NextB ==
    \/ \E batchSize \in BatchSizes, listing \in SUBSET FolderNames,
          unreadable \in SUBSET FolderNames :
           StartConversion(batchSize, listing, unreadable)
    \/ \E r \in DOMAIN runs, i \in 1..Cardinality(FolderNames),
          ok \in BOOLEAN, unreadable \in SUBSET FolderNames :
           Settle(r, i, ok, unreadable)

SpecB == InitQ /\ [][NextB]_vars

\* every path of the service that invokes the converter: the queue, the
\* POST /api/convert route and the folder converter on a full folder
NextV ==
    \/ \E files \in DeckLists : nextId <= MaxBatches /\ Enqueue(files, TRUE)
    \/ \E id \in DOMAIN job, ok \in BOOLEAN : ConvertReturn(id, ok)
    \/ \E id \in DOMAIN job : Release(id, TRUE)
    \/ \E files \in FileLists, isAuthenticated \in BOOLEAN :
           PostConvert(files, isAuthenticated)
    \/ \E k \in DOMAIN posts, success \in BOOLEAN : PostConvertReturn(k, success)
    \/ \E batchSize \in BatchSizes : StartConversion(batchSize, FolderNames, {})
    \/ \E r \in DOMAIN runs, i \in 1..Cardinality(FolderNames),
          ok \in BOOLEAN : Settle(r, i, ok, {})

SpecV == Init /\ [][NextV]_vars

\* the endpoints that take a batch size
Starters == { e \in Endpoints : "runConversion" \in Resolver(e) }

\* the endpoints asked by one address, with and without a valid API key,
\* in front of a queue that is given jobs; the batch size is an input of
\* the endpoints that start the folder converter only
NextA ==
    \/ \E e \in Starters, isAuthenticated \in BOOLEAN,
          batchSize \in 1..MaxHalves :
           Request(e, Observed, isAuthenticated, batchSize, FolderNames, {})
    \/ \E e \in Endpoints \ Starters, isAuthenticated \in BOOLEAN :
           Request(e, Observed, isAuthenticated, MaxHalves, FolderNames, {})
    \/ \E files \in DeckLists : nextId <= MaxBatches /\ Enqueue(files, TRUE)

SpecA == InitQ /\ [][NextA]_vars

\* one upload followed by the page, on a file system that never fails but
\* for the read of the download route
NextC ==
    \/ \E files \in DeckLists : Upload(files)
    \/ \E id \in DOMAIN job, ok \in BOOLEAN : ConvertReturn(id, ok)
    \/ \E id \in DOMAIN job : Release(id, TRUE)
    \/ \E id \in DOMAIN job : TimerFire(id, TRUE)
    \/ RunImmediate(TRUE)
    \/ PollTick
    \/ \E k \in DOMAIN polls : ServeStatus(k)
    \/ \E k \in DOMAIN polls, lost \in BOOLEAN : ReceiveStatus(k, lost)
    \/ \E k \in DOMAIN polls, readOk \in BOOLEAN : ServeDownload(k, readOk)
    \/ \E k \in DOMAIN polls : ReceiveDownload(k)

SpecC == InitQ /\ [][NextC]_vars

\* ------------------------------------------------------------------------
\* Properties
\* ------------------------------------------------------------------------
Stored(id) == InStore(Q, id)
Started(id) == Len(statusLog[id]) >= 2
Terminal(id) == job[id].status \in { "done", "error" }
IsPending(id) == job[id].status = "pending"

\* the pending jobs of the store, oldest first
PendingSeq(q) == SelectSeq(q.jobs, LAMBDA i : q.job[i].status = "pending")

\* a step that is a call of enqueue that returns an id
EnqueueStep == nextId' = nextId + 1 /\ nextId \in DOMAIN job'

\* a step that is the .finally callback of job id
ReleaseStep(id) ==
    /\ id \in DOMAIN job
    /\ exec[id].pc = "settled"
    /\ exec'[id].pc = "released"

\* the status _run leaves a job in when its synchronous part ends: running
\* when there is a presentation to convert and the listing succeeded
StatusAfterStart(j, files) ==
    IF FilterSeq(files) # <<>> /\ j.error # "ENOENT" THEN "running" ELSE "error"

\* C1: in every reachable state, for every maxConcurrent = K >= 1, at most
\* K job objects have status running and the running counter is at most K,
\* whatever the interleaving of enqueue, completions, drains, cleanup calls
\* and TTL timers.
C1_BoundedConcurrency ==
    /\ Cardinality({ id \in DOMAIN job : job[id].status = "running" })
           <= maxConcurrent
    /\ running <= maxConcurrent

\* two completion callbacks back to back: one has drained and admitted a
\* job, the other is still queued, and every slot is taken
C1_Witness ==
    /\ maxConcurrent = 2
    /\ running = 2
    /\ \E a, b, c \in DOMAIN job :
           /\ exec[a].pc = "released"
           /\ exec[b].pc = "settled"
           /\ job[c].status = "running"
           /\ admitted[c].by = "drain"

\* C2: FIFO start order: whenever a job has started, every job created
\* before it that is still in the store has started too, so of two pending
\* jobs the older one always starts first.
C2_FifoStartOrder ==
    \A a, b \in DOMAIN job :
        (a < b /\ Started(b) /\ Stored(a)) => Started(a)

\* a drain picked job a while a younger job was left waiting, and that
\* younger job is still pending
C2_Witness ==
    \E a, b \in DOMAIN job :
        /\ a < b
        /\ admitted[a].by = "drain"
        /\ admitted[a].left >= 1
        /\ Stored(b) /\ IsPending(b) /\ ~Started(b)

\* C3: in every reachable state the positions of the pending jobs of the
\* store are exactly 1..pendingCount, in creation order (stated as in the
\* specification; the code breaks it when cleanup removes a pending job).
C3_PositionsContiguous ==
    LET pend == PendingSeq(Q)
    IN  \A k \in 1..Len(pend) : job[pend[k]].position = k

\* C4: the values assigned to a job's status follow pending -> running ->
\* (done | error): the history of every job object is a prefix of one of
\* the two full lifecycles and its status is the last value assigned.
Lifecycles ==
    { <<"pending">>, <<"pending", "running">>,
      <<"pending", "running", "done">>, <<"pending", "running", "error">> }

C4_StateMachine ==
    \A id \in DOMAIN job :
        /\ statusLog[id] \in Lifecycles
        /\ job[id].status = statusLog[id][Len(statusLog[id])]

\* one job went through to done, another through to error
C4_Witness ==
    \E a, b \in DOMAIN job :
        /\ statusLog[a] = <<"pending", "running", "done">>
        /\ statusLog[b] = <<"pending", "running", "error">>

\* C5: failure isolation: a job that is pending in the store behind a job
\* that ended in error eventually reaches done or error (or is removed by
\* cleanup), provided conversions return and .finally callbacks run.
C5_FailureIsolation ==
    \A b \in Ids :
        (/\ b \in DOMAIN job
         /\ Stored(b) /\ IsPending(b)
         /\ \E a \in DOMAIN job : a < b /\ job[a].status = "error")
        ~> (b \in DOMAIN job /\ (Terminal(b) \/ ~Stored(b)))

\* with one slot, job 1 ended in error, its drain admitted job 2 and job 2
\* went on to done
C5_Witness ==
    /\ maxConcurrent = 1
    /\ nextId = 3
    /\ job[1].status = "error"
    /\ admitted[2].by = "drain"
    /\ job[2].status = "done"

\* C6: cleanup is idempotent: in every reachable state and for every id
\* (issued or not), a second cleanup(id) leaves the state the first call
\* produced, whatever rmSync does, and no call throws.
C6_CleanupIdempotent ==
    \A id \in {UnknownId} \cup DOMAIN job, rm1, rm2 \in BOOLEAN :
        LET once == CleanupQ(Q, id, rm1)
        IN  /\ once.thrown = "none"
            /\ CleanupQ(once, id, rm2) = once

\* cleanup has removed a finished job, cancelled its timer and deleted its
\* directory
C6_Witness ==
    \E id \in DOMAIN job :
        /\ reclaims[id] = 1
        /\ job[id].timer = "cancelled"
        /\ id \notin dirs
        /\ ~Stored(id)

\* C7: not-found uniformity: for a job removed by cleanup or by TTL expiry,
\* getJob and the status endpoint return exactly what they return for an
\* id that was never issued.
C7_NotFoundUniform ==
    \A id \in DOMAIN job :
        reclaims[id] >= 1 =>
            /\ GetJob(Q, id) = GetJob(Q, UnknownId)
            /\ GetJob(Q, id) = GetJob(Q, nextId)
            /\ JobStatusResponse(Q, id) = JobStatusResponse(Q, UnknownId)
            /\ JobStatusResponse(Q, id) = JobStatusResponse(Q, nextId)

\* one job was removed by its TTL timer and another by an explicit cleanup
C7_Witness ==
    \E a, b \in DOMAIN job :
        /\ reclaims[a] = 1 /\ job[a].timer = "fired"
        /\ reclaims[b] = 1 /\ job[b].timer # "fired"

\* C8 as claimed: after enqueue with a free slot the new job is running,
\* the running count has grown by one and nothing is pending, for every
\* file list.
C8_Original ==
    [][(EnqueueStep /\ running < maxConcurrent) =>
          /\ job'[nextId].status = "running"
          /\ running' = running + 1
          /\ PendingCount(Q') = 0]_vars

\* C8 as amended: after enqueue with a free slot the new job has been
\* admitted (running count grown by one, nothing pending, status assigned
\* running); when enqueue returns its status is running if its workspace
\* holds a presentation and the listing succeeded, otherwise already error.
C8_StartsImmediately ==
    [][(EnqueueStep /\ running < maxConcurrent) =>
          /\ running' = running + 1
          /\ PendingCount(Q') = 0
          /\ Len(statusLog'[nextId]) >= 2
          /\ admitted'[nextId].by = "enqueue"
          /\ job'[nextId].status =
                 StatusAfterStart(job'[nextId], workspace'[nextId])]_vars

\* enqueue admitted one job that is running and another, submitted without
\* files, that was already error when enqueue returned
C8_Witness ==
    \E a, b \in DOMAIN job :
        /\ admitted[a].by = "enqueue" /\ job[a].status = "running"
        /\ admitted[b].by = "enqueue" /\ job[b].status = "error"
        /\ workspace[b] = <<>> /\ exec[b].pc = "settled"

\* C9 as claimed: after enqueue with every slot taken the new job is
\* pending and last in the queue, the running count is unchanged and no
\* existing job changed status or position.
C9_Original ==
    [][(/\ EnqueueStep
        /\ running >= maxConcurrent
        /\ Cardinality({ j \in DOMAIN job : job[j].status = "running" })
               = maxConcurrent) =>
          /\ job'[nextId].status = "pending"
          /\ job'[nextId].position = PendingCount(Q')
          /\ running' = running
          /\ \A j \in DOMAIN job :
                 /\ job'[j].status = job[j].status
                 /\ job'[j].position = job[j].position]_vars

\* C10 as claimed: the .finally callback of a job, run while a job is
\* pending, leaves the oldest pending job running without position, every
\* other pending job one position lower and the running count unchanged.
C10_Original ==
    [][\A id \in Ids :
          (ReleaseStep(id) /\ PendingCount(Q) >= 1) =>
              LET oldest == Head(PendingSeq(Q))
              IN  /\ job'[oldest].status = "running"
                  /\ job'[oldest].position = 0
                  /\ running' = running
                  /\ \A k \in 2..Len(PendingSeq(Q)) :
                         LET p == PendingSeq(Q)[k]
                         IN  /\ job'[p].status = "pending"
                             /\ job'[p].position = job[p].position - 1]_vars

\* C10 as amended: the .finally callback of a job, run while a job is
\* pending, admits exactly the oldest pending job: that job has no position
\* and is running, or already error when it has no presentation to convert
\* or its workspace cannot be listed; the other pending jobs stay pending
\* and are numbered 1..n in creation order; the running count is unchanged.
C10_DrainStartsOldest ==
    [][\A id \in Ids :
          (ReleaseStep(id) /\ PendingCount(Q) >= 1) =>
              LET oldest == Head(PendingSeq(Q))
              IN  /\ Len(statusLog'[oldest]) >= 2
                  /\ admitted'[oldest].by = "drain"
                  /\ job'[oldest].status =
                         StatusAfterStart(job'[oldest], workspace'[oldest])
                  /\ job'[oldest].position = 0
                  /\ running' = running
                  /\ PendingSeq(Q') = Tail(PendingSeq(Q))
                  /\ \A k \in 1..Len(PendingSeq(Q')) :
                         job'[PendingSeq(Q')[k]].position = k]_vars

\* a drain admitted a job that is now converting and left a younger job
\* pending with position 1
C10_Witness ==
    \E a, b \in DOMAIN job :
        /\ a < b
        /\ admitted[a].by = "drain" /\ admitted[a].left >= 1
        /\ exec[a].pc = "converting"
        /\ Stored(b) /\ IsPending(b) /\ job[b].position = 1

\* how often file f was passed to the converter by a job
TimesPassed(att, f) == Cardinality({ i \in 1..Len(att) : att[i].file = f })
Succeeded(att) == { i \in 1..Len(att) : att[i].ok }
\* the execution of job id is over (the promise of _run has settled)
Finished(id) == exec[id].pc \in { "settled", "released" }

\* C11: per-file failure isolation inside a job: every input file handed
\* to enqueue for a job whose workspace could be listed is passed to the
\* converter exactly once (never twice while the job runs), a failed
\* conversion does not stop the remaining files, and when all files have
\* been attempted the job is done iff a conversion succeeded, otherwise
\* error, with as many outputs as conversions that succeeded (stated as in
\* the specification; the code breaks it for a file whose name leaves the
\* workspace, see C16).
C11_PerFileIsolation ==
    \A id \in DOMAIN job :
        LET att == attempts[id]
            files == submitted[id]
        IN  /\ \A i \in 1..Len(files) :
                   IsPresentation(files[i]) => TimesPassed(att, files[i]) <= 1
            /\ \A k \in 1..Len(att) : InSeq(att[k].file, files)
            /\ (Finished(id) /\ job[id].error # "ENOENT") =>
                   /\ \A i \in 1..Len(files) :
                          IsPresentation(files[i]) =>
                              TimesPassed(att, files[i]) = 1
                   /\ job[id].status = "done" <=> Succeeded(att) # {}
                   /\ job[id].status = "error" <=> Succeeded(att) = {}
                   /\ Len(job[id].outputPaths) = Cardinality(Succeeded(att))

\* C16: no file name makes enqueue write outside the job's own workspace:
\* nothing is ever written in os.tmpdir() next to the temp directories
\* (stated as in the specification; the code joins the name unchecked).
C16_WritesStayInside == outside = {}

\* C12: an exception raised while a job executes (readdirSync throwing) is
\* caught at the job boundary: no exception escapes an operation, a job
\* whose execution is over is done or error with its TTL timer set, a job
\* whose listing threw is error with the message of the exception; its
\* .finally callback runs once, decrements the running counter by one and
\* drains, so that the oldest pending job, if any, is started in that step.
C12_ExceptionContained ==
    /\ [](/\ thrown = "none"
          /\ \A id \in DOMAIN job :
                 /\ Finished(id) =>
                        (Terminal(id) /\ job[id].timer # "none")
                 /\ job[id].error = "ENOENT" =>
                        (Finished(id) /\ job[id].status = "error"))
    /\ [][\A id \in DOMAIN job :
              /\ exec[id].pc = "released" => exec'[id].pc = "released"
              /\ (ReleaseStep(id) /\ job[id].error = "ENOENT") =>
                     IF PendingCount(Q) = 0
                     THEN running' = running - 1
                     ELSE /\ running' = running
                          /\ Len(statusLog'[Head(PendingSeq(Q))]) >= 2]_vars

\* with one slot, the listing of job a threw, its .finally callback ran and
\* admitted the next job, and the TTL timer of job a is armed
C12_Witness ==
    /\ maxConcurrent = 1
    /\ \E a, b \in DOMAIN job :
           /\ b = a + 1
           /\ job[a].error = "ENOENT" /\ job[a].status = "error"
           /\ exec[a].pc = "released" /\ job[a].timer = "armed"
           /\ admitted[b].by = "drain" /\ job[b].status = "running"
           /\ running = 1

\* C13 as claimed: the TTL timer is set for every job that reached done or
\* error, and every such job still in the store is eventually removed from
\* the job table and has its workspace deleted, provided armed timers fire.
C13_Original ==
    /\ [](\A id \in DOMAIN job : Terminal(id) => job[id].timer # "none")
    /\ \A id \in Ids :
           (id \in DOMAIN job /\ Terminal(id) /\ Stored(id))
           ~> (id \in DOMAIN job /\ ~Stored(id) /\ id \notin dirs)

\* C13 as amended: the TTL timer is set for every job that reached done or
\* error, whichever of the two, and every such job still in the store is
\* eventually removed from the job table by one run of the cleanup path,
\* provided armed timers fire; its workspace is gone then unless deleting it
\* failed, and a failed deletion is not tried again.
C13_TtlReclaims ==
    /\ [](\A id \in DOMAIN job : Terminal(id) => job[id].timer # "none")
    /\ [][\A id \in DOMAIN job :
              (~Stored(id) /\ id \in dirs) => id \in dirs']_vars
    /\ \A id \in Ids :
           (id \in DOMAIN job /\ Terminal(id) /\ Stored(id))
           ~> (id \in DOMAIN job /\ ~Stored(id) /\ reclaims[id] = 1)

\* the TTL timers removed a job that was done, deleting its workspace, and
\* a job that was error, whose workspace could not be deleted; neither was
\* cleaned up by a caller
C13_Witness ==
    \E a, b \in DOMAIN job :
        /\ job[a].status = "done" /\ job[b].status = "error"
        /\ \A id \in {a, b} :
               job[id].timer = "fired" /\ reclaims[id] = 1 /\ ~Stored(id)
        /\ a \notin dirs /\ b \in dirs

\* a step in which the TTL timer of job id fires
TimerStep(id) == job[id].timer = "armed" /\ job'[id].timer = "fired"

\* C14: exactly-once reclamation: the record of a job is removed and its
\* workspace deleted at most once, and only together, by the cleanup of a
\* job that is in the store; a cleanup that comes before the timer fires
\* cancels it and a cancelled timer never fires; a timer that fires removes
\* its own job if it is still in the store and nothing else.
C14_ReclaimedOnce ==
    /\ [](\A id \in DOMAIN job : reclaims[id] <= 1)
    /\ [][\A id \in DOMAIN job :
              /\ reclaims'[id] # reclaims[id] =>
                     /\ reclaims'[id] = reclaims[id] + 1
                     /\ Stored(id) /\ ~InStore(Q', id)
              /\ (Stored(id) /\ ~InStore(Q', id)) =>
                     reclaims'[id] = reclaims[id] + 1
              /\ (id \in dirs /\ id \notin dirs') =>
                     reclaims'[id] = reclaims[id] + 1
              /\ job[id].timer = "cancelled" => job'[id].timer = "cancelled"
              /\ (job[id].timer = "armed" /\ reclaims'[id] # reclaims[id]
                     /\ ~TimerStep(id)) => job'[id].timer = "cancelled"
              /\ TimerStep(id) =>
                     /\ jobs' = RemoveKey(jobs, id)
                     /\ dirs \ {id} \subseteq dirs'
                     /\ \A o \in DOMAIN job \ {id} :
                            reclaims'[o] = reclaims[o]
                     /\ ~Stored(id) => (dirs' = dirs /\ reclaims' = reclaims)]_vars

\* a caller cleaned up job a while its timer was armed, which cancelled
\* the timer; job c, left alone, was reclaimed by its own timer
C14_Witness ==
    \E a, c \in DOMAIN job :
        /\ job[a].timer = "cancelled" /\ reclaims[a] = 1
        /\ ~Stored(a) /\ a \notin dirs
        /\ job[c].timer = "fired" /\ reclaims[c] = 1
        /\ ~Stored(c) /\ c \notin dirs /\ job[c].status = "done"

\* C15: when deleting the workspace fails during cleanup, nothing is raised
\* to the caller, the record is removed from the job table all the same
\* and the timer is cancelled: in every reachable state, for every job in
\* the store, cleanup with a failing rmSync throws nothing, leaves the
\* directory, and afterwards getJob and the status endpoint answer as for
\* an unknown id and the timer is not armed.
C15_RmFailureSwallowed ==
    /\ thrown = "none"
    /\ \A id \in DOMAIN job :
           Stored(id) =>
               LET after == CleanupQ(Q, id, FALSE)
               IN  /\ after.thrown = "none"
                   /\ after.dirs = dirs
                   /\ GetJob(after, id) = <<>>
                   /\ JobStatusResponse(after, id).code = 404
                   /\ after.job[id].timer # "armed"
                   /\ after.reclaims[id] = 1

\* a cleanup whose rmSync failed has removed a finished job and cancelled
\* its timer; the directory is still on disk
C15_Witness ==
    \E id \in DOMAIN job :
        /\ reclaims[id] = 1 /\ id \in dirs
        /\ job[id].timer = "cancelled" /\ Terminal(id)
        /\ GetJob(Q, id) = <<>>
        /\ thrown = "none"

\* C17: workspace exclusivity: in every reachable state no two jobs in the
\* store have the same tempDir, and the tempDir of every job is the
\* directory named after its own id, whatever file names were submitted.
C17_WorkspaceExclusive ==
    \A a \in DOMAIN job :
        /\ job[a].tempDir = job[a].id
        /\ job[a].id = a
        /\ \A b \in DOMAIN job :
               (a # b /\ Stored(a) /\ Stored(b)) =>
                   job[a].tempDir # job[b].tempDir

\* two jobs are in the store at once, one of them submitted with a file
\* name that climbs out of its directory
C17_Witness ==
    \E a, b \in DOMAIN job :
        /\ a # b /\ Stored(a) /\ Stored(b)
        /\ \E i \in 1..Len(submitted[a]) : submitted[a][i].dir = ".."
        /\ {a, b} \subseteq dirs

\* C18: in every state, a job returned by getJob has a position (1 or
\* more) if and only if its status is pending, and the status endpoint
\* reports a position for pending jobs only; in the step in which a job is
\* started its position is cleared.
C18_PositionIffPending ==
    /\ [](\A id \in {UnknownId} \cup DOMAIN job :
             \A k \in 1..Len(GetJob(Q, id)) :
                 LET j == GetJob(Q, id)[k]
                 IN  /\ j.position # 0 <=> j.status = "pending"
                     /\ j.status = "pending" =>
                            JobStatusResponse(Q, id).position >= 1)
    /\ [][\A id \in DOMAIN job :
              (Len(statusLog[id]) = 1 /\ Len(statusLog'[id]) >= 2) =>
                  job'[id].position = 0]_vars

\* a job that waited with position 1 was started by a drain and runs
\* without position while a younger job waits with a position, and an
\* older job is done without position
C18_Witness ==
    \E a, b, c \in DOMAIN job :
        /\ a < b /\ b < c
        /\ Stored(a) /\ job[a].status = "done" /\ job[a].position = 0
        /\ Stored(b) /\ job[b].status = "running" /\ job[b].position = 0
        /\ admitted[b].by = "drain"
        /\ Stored(c) /\ job[c].status = "pending" /\ job[c].position = 1

\* C19: result consistency: in every reachable state a done job has at
\* least one output (the status endpoint reports fileCount >= 1), an error
\* job has an error message, a job that is not error has none, and a
\* pending job has no outputs.
C19_ResultConsistency ==
    \A id \in DOMAIN job :
        LET j == job[id]
        IN  /\ j.status = "done" =>
                   /\ Len(j.outputPaths) >= 1
                   /\ Stored(id) => JobStatusResponse(Q, id).fileCount >= 1
            /\ j.status = "error" =>
                   /\ j.error # "undefined"
                   /\ Stored(id) => JobStatusResponse(Q, id).message = j.error
            /\ j.status # "error" => j.error = "undefined"
            /\ j.status = "pending" => j.outputPaths = <<>>

\* the store holds a done job with one output, an error job with its
\* message and a pending job
C19_Witness ==
    \E a, b, c \in DOMAIN job :
        /\ Stored(a) /\ job[a].status = "done" /\ Len(job[a].outputPaths) = 1
        /\ Stored(b) /\ job[b].status = "error"
        /\ job[b].error \in { "All conversions failed.", "ENOENT" }
        /\ Stored(c) /\ job[c].status = "pending"

\* C20: download boundary: a download request is answered with the files
\* only for a job in the store whose status is done; for a pending,
\* running or error job it is refused with 409 and for an id not in the
\* store with 404; an answer with the files queues the cleanup of that job,
\* and once no such cleanup is queued any more the job is gone: status
\* queries and downloads for its id are answered 404.
C20_DownloadBoundary ==
    /\ [](\A id \in {UnknownId} \cup DOMAIN job, readOk \in BOOLEAN :
             LET r == DownloadResponse(Q, id, readOk)
             IN  /\ r.code = 200 =>
                        (InStore(Q, id) /\ job[id].status = "done" /\ readOk)
                 /\ ~InStore(Q, id) => r.code = 404
                 /\ (InStore(Q, id) /\ job[id].status # "done") => r.code = 409)
    /\ [](\A id \in served :
             InSeq(id, immediates) \/
                 /\ ~Stored(id)
                 /\ reclaims[id] = 1
                 /\ JobStatusResponse(Q, id).code = 404
                 /\ DownloadResponse(Q, id, TRUE).code = 404)
    /\ [][served' # served =>
              \E id \in DOMAIN job :
                  /\ Stored(id) /\ job[id].status = "done"
                  /\ served' = served \cup {id}
                  /\ immediates' = Append(immediates, id)]_vars

\* a done job was downloaded and the cleanup queued by the download has
\* removed it, while an error job and a running job are in the store
C20_Witness ==
    \E a, b, c \in DOMAIN job :
        /\ a \in served /\ immediates = <<>>
        /\ ~Stored(a) /\ job[a].timer = "cancelled"
        /\ DownloadResponse(Q, a, TRUE).code = 404
        /\ Stored(b) /\ job[b].status = "error"
        /\ DownloadResponse(Q, b, TRUE).code = 409
        /\ Stored(c) /\ job[c].status = "running"
        /\ DownloadResponse(Q, c, TRUE).code = 409

\* C21 as claimed: provided conversions return, every submitted job
\* eventually is done or error, and once the last job has been submitted
\* getStats eventually reports running = 0 and pending = 0.
C21_Original ==
    /\ \A b \in Ids :
           (b \in DOMAIN job) ~> (b \in DOMAIN job /\ Terminal(b))
    /\ (nextId > MaxJobs)
           ~> (GetStats(Q).running = 0 /\ GetStats(Q).pending = 0)

\* C21 as amended: provided conversions return, every submitted job
\* eventually is done or error unless cleanup removes it from the store
\* while it is pending (such a job is never started); once the last job has
\* been submitted getStats eventually reports running = 0 and pending = 0.
C21_NoStarvation ==
    /\ \A b \in Ids :
           (b \in DOMAIN job)
           ~> (b \in DOMAIN job /\
                 (Terminal(b) \/ (~Stored(b) /\ ~Started(b))))
    /\ [][\A b \in DOMAIN job :
              (~Stored(b) /\ ~Started(b)) => job'[b] = job[b]]_vars
    /\ (nextId > MaxJobs)
           ~> (GetStats(Q).running = 0 /\ GetStats(Q).pending = 0)

\* every job has been submitted and the queue is idle: one job was started
\* by a drain and finished, another was removed by cleanup while pending
C21_Witness ==
    /\ nextId > MaxJobs
    /\ GetStats(Q).running = 0 /\ GetStats(Q).pending = 0
    /\ \E a, b \in DOMAIN job :
           /\ admitted[a].by = "drain" /\ Terminal(a)
           /\ exec[a].pc = "released"
           /\ reclaims[b] = 1 /\ IsPending(b) /\ ~Started(b)

\* C22: no cancellation: in every reachable state, for every running job,
\* no call of cleanup (for any id, its own included) and no call of
\* enqueue changes its status, its place in _run or the slots in use
\* (enqueue may take a free one), and getJob and getStats are functions of
\* the state; the status and the place in _run of a running job change
\* only when its own conversion returns, and the running counter decreases
\* only by one, in the .finally callback of a job whose execution is over.
C22_NoCancellation ==
    /\ [](\A id \in DOMAIN job :
             job[id].status = "running" =>
                 /\ exec[id].pc = "converting"
                 /\ \A c \in {UnknownId} \cup DOMAIN job, rmOk \in BOOLEAN :
                        LET after == CleanupQ(Q, c, rmOk)
                        IN  /\ after.job[id].status = "running"
                            /\ after.exec[id] = exec[id]
                            /\ after.running = running
                 /\ \A files \in DeckLists, listOk \in BOOLEAN :
                        LET after == EnqueueQ(Q, nextId, files, listOk)
                        IN  /\ after.job[id].status = "running"
                            /\ after.exec[id] = exec[id]
                            /\ after.running >= running)
    /\ [][/\ \A id \in DOMAIN job :
                 ((job[id].status = "running" /\
                    (job'[id].status # "running" \/ exec'[id] # exec[id])) =>
                     Len(attempts'[id]) = Len(attempts[id]) + 1)
          /\ (running' < running =>
                 /\ running' = running - 1
                 /\ \E r \in DOMAIN job : ReleaseStep(r))]_vars

\* a running job was removed by cleanup, with its workspace, and still
\* converts and holds the only slot while a younger job waits
C22_Witness ==
    /\ maxConcurrent = 1 /\ running = 1
    /\ \E a, b \in DOMAIN job :
           /\ job[a].status = "running" /\ exec[a].pc = "converting"
           /\ reclaims[a] = 1 /\ ~Stored(a) /\ a \notin dirs
           /\ Stored(b) /\ IsPending(b)

\* the jobs whose _run was called and whose .finally callback has not run
Executing == { id \in DOMAIN job : exec[id].pc \in { "converting", "settled" } }

StoredWith(status) ==
    { id \in DOMAIN job : Stored(id) /\ job[id].status = status }

\* C23 as claimed: getStats().running is the number of stored jobs whose
\* status is running and getStats().pending the number of stored jobs whose
\* status is pending.
C23_Original ==
    /\ GetStats(Q).running = Cardinality(StoredWith("running"))
    /\ GetStats(Q).pending = Cardinality(StoredWith("pending"))

\* C23 as amended: getStats().running is the number of jobs handed to _run
\* whose .finally callback has not run yet, which is never less than the
\* number of stored jobs whose status is running; getStats().pending is the
\* number of stored jobs whose status is pending; maxConcurrent is the
\* configured limit.
C23_StatsAccuracy ==
    /\ GetStats(Q).running = Cardinality(Executing)
    /\ StoredWith("running") \subseteq Executing
    /\ GetStats(Q).pending = Cardinality(StoredWith("pending"))
    /\ GetStats(Q).maxConcurrent = maxConcurrent

\* a job failed inside enqueue and its .finally callback has not run:
\* running is 1, no stored job has the status running, one job is pending
C23_Witness ==
    /\ GetStats(Q).running = 1 /\ GetStats(Q).pending = 1
    /\ StoredWith("running") = {}
    /\ \E a \in DOMAIN job :
           /\ Stored(a) /\ job[a].status = "error"
           /\ exec[a].pc = "settled"

\* the window of the caller is over: its next call starts a new one
WindowOver(ip) ==
    windowLog[ip].calls = 0 \/ now - windowLog[ip].start > RATE_LIMIT_WINDOW_MS

\* C25: rate limit per window: for each caller, of the calls made since
\* the start of its window exactly the first RATE_LIMIT_MAX_REQUESTS
\* returned true, and the store holds that window's start and that count;
\* the next call returns false when the window is used up and not more than
\* RATE_LIMIT_WINDOW_MS have passed since its start, and once more than
\* that have passed it returns true and stores a new window with count 1.
C25_PerWindow ==
    \A ip \in IPs :
        LET w == windowLog[ip]
            r == CheckRateLimit(rateLimitStore, ip, now)
        IN  /\ w.allowed = Min(w.calls, RATE_LIMIT_MAX_REQUESTS)
            /\ rateLimitStore[ip].count = w.allowed
            /\ rateLimitStore[ip].windowStart = w.start
            /\ r.allowed <=>
                   (WindowOver(ip) \/ w.calls < RATE_LIMIT_MAX_REQUESTS)
            /\ WindowOver(ip) =>
                   r.store[ip] = [count |-> 1, windowStart |-> now]
            /\ ~WindowOver(ip) =>
                   r.store[ip].windowStart = w.start

\* exactly RATE_LIMIT_WINDOW_MS after the start of a window that is used
\* up, calls past the limit were made and the next one is still rejected
C25_Witness ==
    \E ip \in IPs :
        /\ windowLog[ip].calls > RATE_LIMIT_MAX_REQUESTS
        /\ windowLog[ip].start > 0
        /\ now - windowLog[ip].start = RATE_LIMIT_WINDOW_MS
        /\ ~CheckRateLimit(rateLimitStore, ip, now).allowed

\* C26: sliding window: at most RATE_LIMIT_MAX_REQUESTS calls of one caller
\* returned true within the last RATE_LIMIT_WINDOW_MS, whenever that
\* interval is looked at.
C26_SlidingWindow == Len(allowLog) <= RATE_LIMIT_MAX_REQUESTS

\* the store with the entries of every caller but ip forgotten
Alone(store, ip) == [k \in IPs |-> IF k = ip THEN store[k] ELSE NoEntry]

\* C27: isolation between callers: in every reachable state, what
\* checkRateLimit(a) returns and stores for a is fixed by a's own entry and
\* the clock, a call made for another caller b leaves a's entry and the
\* answer to a's next call as they were, and in every step the entry of a
\* caller who did not call stays the same.
C27_NoCrossIpBleed ==
    /\ [](\A a \in IPs :
             LET ra == CheckRateLimit(rateLimitStore, a, now)
                 rs == CheckRateLimit(Alone(rateLimitStore, a), a, now)
             IN  /\ ra.allowed = rs.allowed
                 /\ ra.store[a] = rs.store[a]
                 /\ \A b \in IPs \ {a} :
                        LET rb == CheckRateLimit(rateLimitStore, b, now)
                        IN  /\ rb.store[a] = rateLimitStore[a]
                            /\ CheckRateLimit(rb.store, a, now).allowed
                                   = ra.allowed)
    /\ [][\A a \in IPs :
              windowLog'[a] = windowLog[a] =>
                  rateLimitStore'[a] = rateLimitStore[a]]_vars

\* one caller has used up its window and is rejected while the other, in
\* the same minute, is still allowed
C27_Witness ==
    \E a, b \in IPs :
        /\ windowLog[b].calls > RATE_LIMIT_MAX_REQUESTS
        /\ ~CheckRateLimit(rateLimitStore, b, now).allowed
        /\ windowLog[a].calls \in 1..(RATE_LIMIT_MAX_REQUESTS - 1)
        /\ ~WindowOver(a)
        /\ CheckRateLimit(rateLimitStore, a, now).allowed

\* converter invocations in flight on each path of the service
QueueInFlight ==
    Cardinality({ id \in DOMAIN job : exec[id].pc = "converting" })

PostInFlight == Len(posts)

RECURSIVE FolderInFlight(_)
FolderInFlight(rs) ==
    IF rs = << >> THEN 0 ELSE InFlight(Head(rs)) + FolderInFlight(Tail(rs))

\* C24: service-wide converter bound: at any moment at most maxConcurrent
\* converter invocations are in flight, counting the jobs run by the queue,
\* the POST /api/convert handler and runConversion.
C24_ConverterBound ==
    QueueInFlight + PostInFlight + FolderInFlight(runs) <= maxConcurrent

\* the operations reserved to holders of the API key
AdminFunctions == { "runConversion", "getStats", "getFilesStatus" }

\* C28: authentication of admin operations: the answer to a request made
\* without a valid API key is never produced by running runConversion,
\* getStats or getFilesStatus and never holds the queue statistics: the
\* request is rejected before the resolver runs.
C28_AdminRequiresKey ==
    (reply.endpoint # "none" /\ ~reply.isAuthenticated) =>
        /\ reply.ran \cap AdminFunctions = {}
        /\ reply.queue = << >>
        /\ (reply.endpoint \in Endpoints /\
              Resolver(reply.endpoint) \cap AdminFunctions # {}) =>
                 reply.code # "OK"

RECURSIVE Flatten(_)
Flatten(seqs) ==
    IF seqs = << >> THEN << >> ELSE Head(seqs) \o Flatten(Tail(seqs))

\* C29: batch-bounded folder conversion: during runConversion(batchSize)
\* at most batchSize conversions are in flight (batchSize is counted in
\* halves), the conversions in flight belong to the current batch, and the
\* files started so far are those of the batches up to the current one.
C29_BatchBounded ==
    \A r \in DOMAIN runs :
        LET run == runs[r]
        IN  /\ 2 * InFlight(run) <= run.batchSize
            /\ run.started = Flatten(SubSeq(run.batches, 1, run.batchIndex))
            /\ \A i \in DOMAIN run.results :
                   run.results[i] = "pending" => i \in CurrentBatch(run)

\* C30: folder conversion accounting: the batches are the sorted supported
\* files of the folder cut in order, none skipped or repeated and no batch
\* empty; convertFile has been called once for each file of the batches
\* reached so far; a run that has not returned waits for a conversion in
\* flight; a run that has returned has started every file whatever failed,
\* and returns success + failed = total = number of supported files, with
\* success the number of fulfilled conversions.
C30_Accounting ==
    \A r \in DOMAIN runs :
        LET run    == runs[r]
            decks  == { f \in run.listing : IsPresentation(f) }
            result == Result(run)
            with(status) ==
                Cardinality({ i \in DOMAIN run.results :
                                run.results[i] = status })
        IN  /\ { run.files[i] : i \in DOMAIN run.files } = decks
            /\ Len(run.files) = Cardinality(decks)
            /\ Flatten(run.batches) = run.files
            /\ \A b \in DOMAIN run.batches : run.batches[b] # << >>
            /\ run.started = Flatten(SubSeq(run.batches, 1, run.batchIndex))
            /\ run.pc = "awaiting" => InFlight(run) > 0
            /\ run.pc = "returned" =>
                   /\ run.started = run.files
                   /\ InFlight(run) = 0
                   /\ result.success = with("fulfilled")
                   /\ result.failed = with("rejected")
                   /\ result.success + result.failed = result.total
                   /\ result.total = Cardinality(decks)

\* a run over three files in two batches has returned: the first file
\* failed, the last one, in the second batch, was converted
C30_Witness ==
    \E r \in DOMAIN runs :
        /\ runs[r].pc = "returned"
        /\ Len(runs[r].files) = 3 /\ Len(runs[r].batches) = 2
        /\ runs[r].results[1] = "rejected"
        /\ runs[r].results[3] = "fulfilled"
        /\ Result(runs[r]) = [success |-> 2, failed |-> 1, total |-> 3]

\* C31: sequential folder conversion: a run of the folder converter with
\* its default batch size never has two conversions in flight.
C31_Sequential ==
    \A r \in DOMAIN runs :
        runs[r].batchSize = 2 * BATCH_SIZE => InFlight(runs[r]) <= 1

\* C32: a job's workspace belongs to it for its whole lifetime: the temp
\* directory of every job that is pending or running exists, whether or not
\* the job is still in the store.
C32_WorkspaceOutlivesExecution ==
    \A id \in DOMAIN job :
        job[id].status \in { "pending", "running" } => id \in dirs

\* C33: work conservation: in every state between two operations, no job
\* in the store is pending while the running counter is below
\* maxConcurrent; an admission pass starts at most one job.
C33_WorkConserving ==
    /\ [](GetStats(Q).running < maxConcurrent => StoredWith("pending") = {})
    /\ [][Cardinality({ id \in DOMAIN job' : Len(statusLog'[id]) >= 2 })
             <= Cardinality({ id \in DOMAIN job : Started(id) }) + 1]_vars

\* with two slots, one is free and nothing waits although three jobs were
\* submitted and one of them was started by a completion callback
C33_Witness ==
    /\ maxConcurrent = 2 /\ running = 1
    /\ nextId > MaxJobs
    /\ StoredWith("pending") = {}
    /\ \E a \in DOMAIN job : admitted[a].by = "drain"

\* how many times the status of job id was set to running
TimesStarted(id) ==
    Len(SelectSeq(statusLog[id], LAMBDA st : st = "running"))

\* the jobs whose .finally callback has run
Released == { id \in DOMAIN job : exec[id].pc = "released" }

\* C34: exactly-once execution and slot accounting: no job is set running
\* twice; the running counter is never negative and equals the number of
\* jobs started minus the number of jobs whose .finally callback has run; a
\* job removed from the store before it was started is never started; a
\* job is released only after it was started, once, and the counter moves
\* by at most one in a step.
C34_ExactlyOnce ==
    /\ [](/\ \A id \in DOMAIN job : TimesStarted(id) <= 1
          /\ running >= 0
          /\ running = Cardinality({ id \in DOMAIN job : TimesStarted(id) = 1 })
                          - Cardinality(Released)
          /\ \A id \in Released : TimesStarted(id) = 1)
    /\ [][/\ \A id \in DOMAIN job :
                 /\ (~Stored(id) /\ ~Started(id)) =>
                        statusLog'[id] = statusLog[id]
                 /\ exec[id].pc = "released" => exec'[id].pc = "released"
          /\ running' \in { running - 1, running, running + 1 }]_vars

\* every slot is free again after three submissions: two jobs ran and were
\* released, one was removed while pending and never ran
C34_Witness ==
    /\ nextId > MaxJobs /\ running = 0
    /\ \E a, b, c \in DOMAIN job :
           /\ a # b
           /\ a \in Released /\ b \in Released
           /\ admitted[b].by = "drain"
           /\ TimesStarted(c) = 0 /\ ~Stored(c)

\* C35: TTL timer discipline: a job in the store has an armed timer exactly
\* when its status is done or error, and a job that is pending or running
\* has never had a timer; a timer is armed once, for a job that had none,
\* and never again; the timer that fires belongs to a finished job, and a
\* job that leaves the store while pending or running does so in a step
\* in which no timer fires.
C35_TimerDiscipline ==
    /\ [](\A id \in DOMAIN job :
             /\ Stored(id) => (job[id].timer = "armed" <=> Terminal(id))
             /\ ~Terminal(id) => job[id].timer = "none")
    /\ [][\A id \in DOMAIN job :
              /\ (job'[id].timer = "armed" /\ job[id].timer # "armed") =>
                     job[id].timer = "none"
              /\ job[id].timer # "none" => job'[id].timer # "none"
              /\ TimerStep(id) => Terminal(id)
              /\ (Stored(id) /\ ~Terminal(id) /\ ~InStore(Q', id)) =>
                     \A o \in DOMAIN job : ~TimerStep(o)]_vars

\* a finished job waits in the store with its timer armed beside a pending
\* job without timer, after the timer of another job has removed that job
C35_Witness ==
    \E a, b, c \in DOMAIN job :
        /\ Stored(a) /\ Terminal(a) /\ job[a].timer = "armed"
        /\ Stored(b) /\ IsPending(b) /\ job[b].timer = "none"
        /\ ~Stored(c) /\ job[c].timer = "fired" /\ reclaims[c] = 1

\* C36: failed submission is atomic: every temp directory that exists
\* belongs to a job that is in the store; an enqueue whose staging threw
\* has left neither a record nor a directory.
C36_NoOrphanWorkspace ==
    \A id \in dirs : id \in DOMAIN job /\ Stored(id)

\* C37: distinct outputs: within one job the output paths are pairwise
\* distinct, so that fileCount, the length of outputPaths, is the number of
\* PDF files produced.
C37_DistinctOutputs ==
    \A id \in DOMAIN job :
        LET paths == job[id].outputPaths
        IN  /\ \A i, k \in DOMAIN paths : i # k => paths[i] # paths[k]
            /\ Len(paths) = Cardinality({ paths[i] : i \in DOMAIN paths })

\* C38: whatever the order of the poll callbacks and of their answers, the
\* page requests the download of a finished job at most once, and once a
\* download was saved its status is done and stays done
C38_PollOutcome ==
    /\ client.requested <= 1
    /\ client.saved => client.status = "done"

\* C39: the purge removes only entries whose window is over, and whenever
\* checkRateLimit or getRateLimitStats is called next, for whichever caller,
\* it returns what it would return, and checkRateLimit leaves the caller
\* with the entry it would have, had no purge ever run
C39_PurgeUnobservable ==
    \A ip \in IPs :
        /\ \/ rateLimitStore[ip] = unpurged[ip]
           \/ /\ rateLimitStore[ip] = NoEntry
              /\ now - unpurged[ip].windowStart > RATE_LIMIT_WINDOW_MS
        /\ CheckRateLimit(rateLimitStore, ip, now).allowed
               = CheckRateLimit(unpurged, ip, now).allowed
        /\ CheckRateLimit(rateLimitStore, ip, now).store[ip]
               = CheckRateLimit(unpurged, ip, now).store[ip]
        /\ GetRateLimitStats(rateLimitStore, ip, now)
               = GetRateLimitStats(unpurged, ip, now)

\* the purge has removed the entry of a caller that had used up its window,
\* and has kept the entry of another
C39_Witness ==
    \E ip \in IPs, other \in IPs :
        /\ rateLimitStore[ip] = NoEntry
        /\ unpurged[ip].count = RATE_LIMIT_MAX_REQUESTS
        /\ rateLimitStore[other] # NoEntry
        /\ now - rateLimitStore[other].windowStart > RATE_LIMIT_WINDOW_MS

====
